---- MODULE Spec2Model ----
(***************************************************************************)
(* Verification model of the reg_gap comparison and risk pipeline:         *)
(*   SemanticDiff.compare_clauses           (comparison/semantic_diff.py)  *)
(*   JurisdictionalComparator.compare       (comparison/jurisdictional.py) *)
(*   JurisdictionalComparator.generate_gap_matrix                          *)
(*   JurisdictionProfile                    (comparison/jurisdictional.py) *)
(*   EnforcementModel                       (risk/enforcement_model.py)    *)
(*   the ID counters shared by threads      (risk/enforcement_model.py,    *)
(*                                           reports/summaries.py)         *)
(*   RiskInterval, ConfidenceBounds         (risk/confidence_bounds.py)    *)
(*   AmbiguityDetector.detect               (comparison/ambiguity.py)      *)
(*   ClauseExtractor.extract                (parsing/clause_extractor.py)  *)
(*   DefinitionExtractor.extract            (parsing/definitions.py)       *)
(*   TextNormalizer._extract_sections       (ingestion/normalizer.py)      *)
(*   the embedding cache of SemanticDiff    (comparison/semantic_diff.py)  *)
(* Floats are modelled as exact rationals <<numerator, denominator>>.      *)
(* A text is the sequence of its whitespace-separated words; the text      *)
(* components say how they cut the text they are given.                    *)
(***************************************************************************)
EXTENDS Integers, Sequences, FiniteSets, TLC

VARIABLES
    similarity_threshold,  \* SemanticDiff.similarity_threshold (rational)
    embedding_model,       \* SemanticDiff.embedding_model: "None" or the name of a model
    clauses_a,             \* compare_clauses argument
    clauses_b,             \* compare_clauses argument
    differences,           \* local list `differences` of compare_clauses
    matched_b,             \* local set `matched_b` of compare_clauses (indices of clauses_b)
    best_match_idx,        \* history of the local best_match_idx per A-iteration (0: no match)
    pos,                   \* loop position (1-based) of the running loop
    pc,                    \* control point of compare_clauses / compare
    profile_a,             \* compare argument
    profile_b,             \* compare argument
    clause_diffs,          \* local `clause_diffs` of compare
    gaps,                  \* list returned by compare
    profiles,              \* generate_gap_matrix argument
    matrix,                \* local dict `matrix` of generate_gap_matrix
    compare_calls,         \* history of the compare invocations <<i, j>> of generate_gap_matrix
    mi,                    \* outer loop index of generate_gap_matrix
    mj,                    \* inner loop index of generate_gap_matrix
    passed_counts,         \* the three counts passed to the JurisdictionProfile constructor
    enforcement_models,    \* the EnforcementModel instances: conservative_factor, _scenario_counter
    scenario_ids,          \* history of the scenario_id values returned by each instance
    last_call,             \* the last model_clause_risk call: instance and returned scenario
    scenario_report,       \* dict returned by generate_scenario_report, if it was the last call
    _scenario_counter,     \* EnforcementModel._scenario_counter of the instance shared by threads
    _report_counter,       \* ReportGenerator._report_counter of the instance shared by threads
    thread_op,             \* index in ThreadCalls of the method each thread is calling
    thread_pc,             \* position of each thread inside its call: load, store, format
    thread_loaded,         \* counter value a thread has loaded and not yet stored back
    thread_ids,            \* the IDs returned to each thread, in order
    confidence_bounds,     \* the ConfidenceBounds instance: confidence_level, conservative_bias
    intervals,             \* the RiskInterval objects constructed so far
    bounds_call,           \* the last call: RiskInterval(...) arguments or aggregation method
    raised,                \* exception raised by the last call, "None" if it returned
    aggregated,            \* interval returned by aggregate_intervals, if it was the last call
    calculated,            \* interval returned by calculate_bounds, if it was the last call
    detector,              \* the AmbiguityDetector: defined_terms, severity_threshold
    document_text,         \* detect argument `text`
    ambiguity_report,      \* outcome of detect: exception raised, AmbiguityReport returned
    extractor,             \* the ClauseExtractor: min_clause_length, max_clause_length
    regulatory_text,       \* ClauseExtractor.extract argument `text`
    extracted,             \* outcome of ClauseExtractor.extract: the clauses returned
    definition_extractor,  \* the DefinitionExtractor: min/max_definition_length
    glossary_text,         \* DefinitionExtractor.extract argument `text`
    extracted_definitions, \* outcome of DefinitionExtractor.extract: the definitions returned
    normalized_text,       \* _extract_sections argument `text`, by lines
    sections,              \* list `sections` of _extract_sections / _deduplicate_sections
    deduplicated,          \* local list `deduplicated` of _deduplicate_sections
    section_pos,           \* loop position (1-based) in `sections` of _deduplicate_sections
    section_pc,            \* control point of _extract_sections / _deduplicate_sections
    _embeddings_cache,      \* SemanticDiff._embeddings_cache: text -> embedding
    encode_calls,          \* history of the texts passed to embedding_model.encode
    cache_call             \* the last compare_clauses call on the caching instance and its result

vars == <<similarity_threshold, embedding_model, clauses_a, clauses_b, differences,
          matched_b, best_match_idx, pos, pc, profile_a, profile_b, clause_diffs,
          gaps, profiles, matrix, compare_calls, mi, mj, passed_counts,
          enforcement_models, scenario_ids, last_call, scenario_report,
          _scenario_counter, _report_counter, thread_op, thread_pc, thread_loaded,
          thread_ids, confidence_bounds, intervals, bounds_call, raised, aggregated,
          calculated, detector, document_text, ambiguity_report,
          extractor, regulatory_text, extracted, definition_extractor, glossary_text,
          extracted_definitions, normalized_text, sections, deduplicated, section_pos,
          section_pc, _embeddings_cache, encode_calls, cache_call>>

diffVars == <<similarity_threshold, embedding_model, clauses_a, clauses_b, differences,
              matched_b, best_match_idx, pos>>
compareVars == <<profile_a, profile_b, clause_diffs, gaps>>
matrixVars == <<profiles, matrix, compare_calls, mi, mj>>
profileVars == <<passed_counts>>
enforcementVars == <<enforcement_models, scenario_ids, last_call, scenario_report>>
raceVars == <<_scenario_counter, _report_counter, thread_op, thread_pc, thread_loaded,
              thread_ids>>
boundsVars == <<confidence_bounds, intervals, bounds_call, raised, aggregated, calculated>>
riskVars == <<enforcementVars, raceVars, boundsVars>>

\* Values of the variables of a component that a specification does not run
ProfileIdle == passed_counts = <<>>

EnforcementIdle ==
    /\ enforcement_models = <<>>
    /\ scenario_ids = <<>>
    /\ last_call = <<>>
    /\ scenario_report = <<>>

RaceIdle ==
    /\ _scenario_counter = 0
    /\ _report_counter = 0
    /\ thread_op = <<>>
    /\ thread_pc = <<>>
    /\ thread_loaded = <<>>
    /\ thread_ids = <<>>

BoundsIdle ==
    /\ confidence_bounds = <<>>
    /\ intervals = <<>>
    /\ bounds_call = <<>>
    /\ raised = "None"
    /\ aggregated = <<>>
    /\ calculated = <<>>

RiskIdle == EnforcementIdle /\ RaceIdle /\ BoundsIdle

ambiguityVars == <<detector, document_text, ambiguity_report>>
extractionVars == <<extractor, regulatory_text, extracted>>
definitionVars == <<definition_extractor, glossary_text, extracted_definitions>>
sectionVars == <<normalized_text, sections, deduplicated, section_pos, section_pc>>
cacheVars == <<_embeddings_cache, encode_calls, cache_call>>
textVars == <<ambiguityVars, extractionVars, definitionVars, sectionVars, cacheVars>>

AmbiguityIdle == detector = <<>> /\ document_text = <<>> /\ ambiguity_report = <<>>

ExtractionIdle == extractor = <<>> /\ regulatory_text = <<>> /\ extracted = <<>>

DefinitionIdle == definition_extractor = <<>> /\ glossary_text = <<>> /\ extracted_definitions = <<>>

SectionIdle == normalized_text = <<>> /\ sections = <<>> /\ deduplicated = <<>> /\ section_pos = 0 /\ section_pc = "idle"

CacheIdle == _embeddings_cache = <<>> /\ encode_calls = <<>> /\ cache_call = <<>>

TextIdle == AmbiguityIdle /\ ExtractionIdle /\ DefinitionIdle /\ SectionIdle /\ CacheIdle

(***************************************************************************)
(* Bounds of the model.                                                    *)
(***************************************************************************)
MaxClauses == 2      \* longest clause list given to compare_clauses
MaxProfiles == 3     \* longest profile list given to generate_gap_matrix

(***************************************************************************)
(* Exact rationals standing for Python floats.                             *)
(***************************************************************************)
RECURSIVE GCD(_, _)
GCD(a, b) == IF b = 0 THEN a ELSE GCD(b, a % b)

Abs(n) == IF n < 0 THEN -n ELSE n

Rat(n, d) ==
    LET g == GCD(Abs(n), d)
    IN  IF n = 0 THEN <<0, 1>> ELSE <<n \div g, d \div g>>

RatLt(x, y) == x[1] * y[2] < y[1] * x[2]
RatLe(x, y) == x[1] * y[2] <= y[1] * x[2]
RatGt(x, y) == RatLt(y, x)
RatGe(x, y) == RatLe(y, x)
RatAdd(x, y) == Rat(x[1] * y[2] + y[1] * x[2], x[2] * y[2])
RatSub(x, y) == Rat(x[1] * y[2] - y[1] * x[2], x[2] * y[2])
RatMul(x, y) == Rat(x[1] * y[1], x[2] * y[2])
RatMin(x, y) == IF RatLe(x, y) THEN x ELSE y
Zero == <<0, 1>>
One == <<1, 1>>

(***************************************************************************)
(* str.lower() on the words of the model's vocabulary.                     *)
(***************************************************************************)
Lower(w) ==
    CASE w = "Firms" -> "firms"
      [] w = "MAY"   -> "may"
      [] w = "Broker" -> "broker"
      [] w = "A"     -> "a"
      [] w = "Custody" -> "custody"
      [] OTHER       -> w

LowerText(text) == [k \in DOMAIN text |-> Lower(text[k])]

\* set(text.lower().split())
WordSet(text) == {Lower(text[k]) : k \in DOMAIN text}

(***************************************************************************)
(* ClauseType and RegulatoryClause (only the fields the comparison reads). *)
(***************************************************************************)
ClauseType == {"obligation", "prohibition", "permission", "condition",
               "definition", "exception", "unknown"}

RegulatoryClause(text, clause_type) == [text |-> text, clause_type |-> clause_type]

\* Python None in an Optional[RegulatoryClause] field
NoClause == [text |-> <<>>, clause_type |-> "None"]

ClauseUniverse ==
    { RegulatoryClause(<<"Firms", "shall", "report", "daily">>, "obligation"),
      RegulatoryClause(<<"firms", "MAY", "report", "daily">>, "permission"),
      RegulatoryClause(<<"firms", "must", "report", "daily">>, "obligation"),
      RegulatoryClause(<<"no", "material", "adequate", "reasonable", "delay">>,
                       "prohibition") }

SeqsUpTo(S, n) == UNION {[1..k -> S] : k \in 0..n}

(***************************************************************************)
(* DifferenceType                                                          *)
(***************************************************************************)
DifferenceType == {"stricter", "looser", "ambiguous", "equivalent", "conflicting", "novel"}

(***************************************************************************)
(* Indicator lexicons of SemanticDiff; an indicator is a sequence of words.*)
(***************************************************************************)
STRICTER_INDICATORS ==
    { <<"must">>, <<"shall">>, <<"required">>, <<"mandatory">>, <<"always">>,
      <<"never">>, <<"prohibited">>, <<"forbidden">>, <<"all">>, <<"each">>,
      <<"every">>, <<"immediately">>, <<"within", "24", "hours">>,
      <<"no", "exceptions">>, <<"under", "no", "circumstances">> }

LOOSER_INDICATORS ==
    { <<"may">>, <<"can">>, <<"optional">>, <<"reasonable">>, <<"generally">>,
      <<"typically">>, <<"usually">>, <<"unless">>, <<"except">>,
      <<"subject", "to">>, <<"at", "discretion">>, <<"good", "faith">>,
      <<"best", "efforts">>, <<"commercially", "reasonable">> }

AMBIGUITY_INDICATORS ==
    { <<"appropriate">>, <<"adequate">>, <<"sufficient">>, <<"reasonable">>,
      <<"material">>, <<"significant">>, <<"substantial">>, <<"promptly">>,
      <<"timely">>, <<"as", "needed">>, <<"as", "applicable">>,
      <<"where", "appropriate">>, <<"to", "the", "extent">> }

\* Proper substrings: the pairs <<word, indicator word>> of the vocabulary where the
\* indicator word occurs inside the longer word ('all' in 'shall').
ProperSubstring == { <<"shall", "all">> }

\* Python `ind in text` for str: substring search on the lower-cased text
WordContains(w, k) == w = k \/ <<w, k>> \in ProperSubstring

Occurs(ind, text) ==
    \E p \in 1..(Len(text) - Len(ind) + 1) :
        \A q \in 1..Len(ind) :
            IF Len(ind) = 1 THEN WordContains(text[p + q - 1], ind[q])
                            ELSE text[p + q - 1] = ind[q]

\* sum(1 for ind in INDICATORS if ind in text)
IndicatorCount(indicators, text) == Cardinality({ind \in indicators : Occurs(ind, text)})

\* The three indicator counts of _analyze_difference for the lower-cased text of a clause,
\* tabulated once over the clauses of the model
IndicatorCounts ==
    [c \in ClauseUniverse |->
        [ stricter |-> IndicatorCount(STRICTER_INDICATORS, LowerText(c.text)),
          looser |-> IndicatorCount(LOOSER_INDICATORS, LowerText(c.text)),
          ambiguous |-> IndicatorCount(AMBIGUITY_INDICATORS, LowerText(c.text)) ]]

(***************************************************************************)
(* SemanticDiff similarity                                                 *)
(***************************************************************************)
\* _keyword_similarity: Jaccard similarity of the lower-cased word sets
_keyword_similarity(text_a, text_b) ==
    LET words_a == WordSet(text_a)
        words_b == WordSet(text_b)
    IN  IF words_a = {} \/ words_b = {}
        THEN Zero
        ELSE Rat(Cardinality(words_a \cap words_b), Cardinality(words_a \cup words_b))

\* The embedding callback "E1": a deterministic function of the text giving a 2-d vector
EmbeddingModels == {"E1"}

EmbeddingVector(model, text) ==
    CASE text = <<"Firms", "shall", "report", "daily">> -> <<3, 4>>
      [] text = <<"firms", "MAY", "report", "daily">>   -> <<4, 3>>
      [] text = <<"firms", "must", "report", "daily">>  -> <<0, 0>>
      [] OTHER                                          -> <<5, 0>>

Dot(u, v) == u[1] * v[1] + u[2] * v[2]

\* np.linalg.norm on the vectors above (all of integer length)
Norm(v) == CHOOSE n \in 0..Dot(v, v) : n * n = Dot(v, v)

\* _embedding_similarity: cosine of the two embeddings, 0.0 when a norm is zero
_embedding_similarity(model, text_a, text_b) ==
    LET emb_a == EmbeddingVector(model, text_a)
        emb_b == EmbeddingVector(model, text_b)
        norm_a == Norm(emb_a)
        norm_b == Norm(emb_b)
    IN  IF norm_a = 0 \/ norm_b = 0
        THEN Zero
        ELSE Rat(Dot(emb_a, emb_b), norm_a * norm_b)

\* _calculate_similarity for a SemanticDiff whose embedding_model is `model`
SimilarityUnder(model, text_a, text_b) ==
    IF model # "None"
    THEN _embedding_similarity(model, text_a, text_b)
    ELSE _keyword_similarity(text_a, text_b)

ClauseTexts == {c.text : c \in ClauseUniverse}

\* SimilarityUnder tabulated once over the texts of the model (both functions are pure)
SimilarityTable ==
    [model \in {"None"} \cup EmbeddingModels |->
        [text_a \in ClauseTexts |->
            [text_b \in ClauseTexts |-> SimilarityUnder(model, text_a, text_b)]]]

_calculate_similarity(text_a, text_b) == SimilarityTable[embedding_model][text_a][text_b]

(***************************************************************************)
(* ClauseDifference and SemanticDiff._analyze_difference                   *)
(***************************************************************************)
ClauseDifference(clause_a, clause_b, difference_type, similarity_score, analysis, confidence, risk_factors, requires_legal_review) ==
    [ clause_a |-> clause_a, clause_b |-> clause_b,
      difference_type |-> difference_type, similarity_score |-> similarity_score,
      analysis |-> analysis, confidence |-> confidence,
      risk_factors |-> risk_factors, requires_legal_review |-> requires_legal_review ]

\* ClassifyDifference with the clause-type test moved ahead of the ambiguity-count test
ClassifyDifference_TypeFirst(clause_a, clause_b, similarity) ==
    LET stricter_a == IndicatorCounts[clause_a].stricter
        stricter_b == IndicatorCounts[clause_b].stricter
        looser_a == IndicatorCounts[clause_a].looser
        looser_b == IndicatorCounts[clause_b].looser
        ambiguous_a == IndicatorCounts[clause_a].ambiguous
        ambiguous_b == IndicatorCounts[clause_b].ambiguous
    IN  IF RatGt(similarity, <<19, 20>>)
        THEN <<"equivalent", <<"Clauses are semantically equivalent">>, <<9, 10>>, <<>>>>
        ELSE IF stricter_a > stricter_b + 1 \/ looser_b > looser_a + 1
        THEN <<"stricter", <<"First clause appears stricter than second">>, <<7, 10>>,
               <<"stricter_language_detected">>>>
        ELSE IF stricter_b > stricter_a + 1 \/ looser_a > looser_b + 1
        THEN <<"looser", <<"First clause appears looser than second">>, <<7, 10>>,
               <<"looser_language_detected">>>>
        ELSE IF clause_a.clause_type # clause_b.clause_type
        THEN <<"conflicting",
               <<"Clause type mismatch:", clause_a.clause_type, "vs", clause_b.clause_type>>,
               <<4, 5>>, <<"clause_type_conflict">>>>
        ELSE IF ambiguous_a > 2 \/ ambiguous_b > 2
        THEN <<"ambiguous", <<"Significant ambiguity in clause language">>, <<1, 2>>,
               <<"ambiguous_language">>>>
        ELSE <<"ambiguous", <<"Difference is unclear - requires human review">>, <<2, 5>>,
               <<"unclear_difference">>>>

\* The if/elif chain of _analyze_difference: <<diff_type, analysis, confidence, risk_factors>>
ClassifyDifference(clause_a, clause_b, similarity) ==
    LET stricter_a == IndicatorCounts[clause_a].stricter
        stricter_b == IndicatorCounts[clause_b].stricter
        looser_a == IndicatorCounts[clause_a].looser
        looser_b == IndicatorCounts[clause_b].looser
        ambiguous_a == IndicatorCounts[clause_a].ambiguous
        ambiguous_b == IndicatorCounts[clause_b].ambiguous
    IN  IF RatGt(similarity, <<19, 20>>)
        THEN <<"equivalent", <<"Clauses are semantically equivalent">>, <<9, 10>>, <<>>>>
        ELSE IF stricter_a > stricter_b + 1 \/ looser_b > looser_a + 1
        THEN <<"stricter", <<"First clause appears stricter than second">>, <<7, 10>>,
               <<"stricter_language_detected">>>>
        ELSE IF stricter_b > stricter_a + 1 \/ looser_a > looser_b + 1
        THEN <<"looser", <<"First clause appears looser than second">>, <<7, 10>>,
               <<"looser_language_detected">>>>
        ELSE IF ambiguous_a > 2 \/ ambiguous_b > 2
        THEN <<"ambiguous", <<"Significant ambiguity in clause language">>, <<1, 2>>,
               <<"ambiguous_language">>>>
        ELSE IF clause_a.clause_type # clause_b.clause_type
        THEN <<"conflicting",
               <<"Clause type mismatch:", clause_a.clause_type, "vs", clause_b.clause_type>>,
               <<4, 5>>, <<"clause_type_conflict">>>>
        ELSE <<"ambiguous", <<"Difference is unclear - requires human review">>, <<2, 5>>,
               <<"unclear_difference">>>>

\* RequiresReview without the risk-factor disjunct
RequiresReview_NoRiskFactors(diff_type, confidence, risk_factors) ==
    \/ diff_type \in {"ambiguous", "conflicting"}
    \/ RatLt(confidence, <<3, 5>>)

\* requires_review of _analyze_difference
RequiresReview(diff_type, confidence, risk_factors) ==
    \/ diff_type \in {"ambiguous", "conflicting"}
    \/ RatLt(confidence, <<3, 5>>)
    \/ Len(risk_factors) > 0

_analyze_difference(clause_a, clause_b, similarity) ==
    LET c == ClassifyDifference(clause_a, clause_b, similarity)
    IN  ClauseDifference(clause_a, clause_b, c[1], similarity, c[2], c[3], c[4],
                         RequiresReview(c[1], c[3], c[4]))

(***************************************************************************)
(* SemanticDiff.compare_clauses                                            *)
(***************************************************************************)
\* The inner loop over clauses_b (lines 127-136): scanning from index i with the
\* running best_match_idx / best_similarity, gives the final <<best_match_idx,
\* best_similarity>>; best_match_idx = 0 stands for best_match = None.
RECURSIVE ScanCandidates(_, _, _, _, _, _)
ScanCandidates(clause_a, cls_b, matched, i, best_idx, best_similarity) ==
    IF i > Len(cls_b)
    THEN <<best_idx, best_similarity>>
    ELSE IF i \in matched
    THEN ScanCandidates(clause_a, cls_b, matched, i + 1, best_idx, best_similarity)
    ELSE LET similarity == _calculate_similarity(clause_a.text, cls_b[i].text)
         IN  IF RatGt(similarity, best_similarity) /\ RatGe(similarity, similarity_threshold)
             THEN ScanCandidates(clause_a, cls_b, matched, i + 1, i, similarity)
             ELSE ScanCandidates(clause_a, cls_b, matched, i + 1, best_idx, best_similarity)

BestMatch(clause_a, cls_b, matched) == ScanCandidates(clause_a, cls_b, matched, 1, 0, Zero)

\* The NOVEL difference built at lines 142-150 and 157-165
NovelDifference(clause, from_jurisdiction, to_jurisdiction) ==
    ClauseDifference(clause, NoClause, "novel", Zero,
                     <<"Clause in", from_jurisdiction, "has no equivalent in", to_jurisdiction>>,
                     <<4, 5>>, <<>>, TRUE)

\* MatchClause that forgets to add the chosen index to matched_b
MatchClause_NoRemoval(clause_a, cls_b, matched, jurisdiction_a, jurisdiction_b) ==
    LET best == BestMatch(clause_a, cls_b, matched)
    IN  IF best[1] # 0
        THEN [ diff |-> _analyze_difference(clause_a, cls_b[best[1]], best[2]),
               matched |-> matched, idx |-> best[1] ]
        ELSE [ diff |-> NovelDifference(clause_a, jurisdiction_a, jurisdiction_b),
               matched |-> matched, idx |-> 0 ]

\* One iteration of the loop over clauses_a (lines 123-152): the difference appended,
\* the new matched_b and the best_match_idx of the iteration
MatchClause(clause_a, cls_b, matched, jurisdiction_a, jurisdiction_b) ==
    LET best == BestMatch(clause_a, cls_b, matched)
    IN  IF best[1] # 0
        THEN [ diff |-> _analyze_difference(clause_a, cls_b[best[1]], best[2]),
               matched |-> matched \cup {best[1]}, idx |-> best[1] ]
        ELSE [ diff |-> NovelDifference(clause_a, jurisdiction_a, jurisdiction_b),
               matched |-> matched, idx |-> 0 ]

\* UnmatchedClause that reports every B-clause, matched or not
UnmatchedClause_AppendAll(diffs, cls_b, matched, i, jurisdiction_a, jurisdiction_b) ==
    Append(diffs, NovelDifference(cls_b[i], jurisdiction_b, jurisdiction_a))

\* UnmatchedClause that puts the B-clause in the clause_b field and leaves clause_a empty
UnmatchedClause_EmptyA(diffs, cls_b, matched, i, jurisdiction_a, jurisdiction_b) ==
    IF i \notin matched
    THEN Append(diffs, ClauseDifference(NoClause, cls_b[i], "novel", Zero,
                    <<"Clause in", jurisdiction_b, "has no equivalent in", jurisdiction_a>>,
                    <<4, 5>>, <<>>, TRUE))
    ELSE diffs

\* One iteration of the loop over clauses_b (lines 155-166): the differences list after it
UnmatchedClause(diffs, cls_b, matched, i, jurisdiction_a, jurisdiction_b) ==
    IF i \notin matched
    THEN Append(diffs, NovelDifference(cls_b[i], jurisdiction_b, jurisdiction_a))
    ELSE diffs

\* Default labels of compare_clauses
DefaultJurisdictionA == "Source"
DefaultJurisdictionB == "Target"

Thresholds == { <<0, 1>>, <<1, 2>>, <<7, 10>> }

InitDiff ==
    /\ similarity_threshold \in Thresholds
    /\ embedding_model \in {"None"} \cup EmbeddingModels
    /\ clauses_a \in SeqsUpTo(ClauseUniverse, MaxClauses)
    /\ clauses_b \in SeqsUpTo(ClauseUniverse, MaxClauses)
    /\ differences = <<>>
    /\ matched_b = {}
    /\ best_match_idx = <<>>
    /\ pos = 1
    /\ pc = "loop_a"
    /\ profile_a = NoClause
    /\ profile_b = NoClause
    /\ clause_diffs = <<>>
    /\ gaps = <<>>
    /\ profiles = <<>>
    /\ matrix = <<>>
    /\ compare_calls = <<>>
    /\ mi = 0
    /\ mj = 0
    /\ ProfileIdle
    /\ RiskIdle
    /\ TextIdle

\* for clause_a in clauses_a: ... differences.append(diff)
MatchClauseA ==
    /\ pc = "loop_a"
    /\ pos <= Len(clauses_a)
    /\ LET r == MatchClause(clauses_a[pos], clauses_b, matched_b,
                            DefaultJurisdictionA, DefaultJurisdictionB)
       IN  /\ differences' = Append(differences, r.diff)
           /\ matched_b' = r.matched
           /\ best_match_idx' = Append(best_match_idx, r.idx)
    /\ pos' = pos + 1
    /\ UNCHANGED <<pc, similarity_threshold, embedding_model, clauses_a, clauses_b>>
    /\ UNCHANGED <<compareVars, matrixVars, profileVars, riskVars, textVars>>

\* the loop over clauses_a is exhausted; the loop over clauses_b starts
StartUnmatchedScan ==
    /\ pc = "loop_a"
    /\ pos > Len(clauses_a)
    /\ pc' = "loop_b"
    /\ pos' = 1
    /\ UNCHANGED <<similarity_threshold, embedding_model, clauses_a, clauses_b,
                   differences, matched_b, best_match_idx>>
    /\ UNCHANGED <<compareVars, matrixVars, profileVars, riskVars, textVars>>

\* for i, clause_b in enumerate(clauses_b): if i not in matched_b: differences.append(...)
UnmatchedClauseB ==
    /\ pc = "loop_b"
    /\ pos <= Len(clauses_b)
    /\ differences' = UnmatchedClause(differences, clauses_b, matched_b, pos,
                                      DefaultJurisdictionA, DefaultJurisdictionB)
    /\ pos' = pos + 1
    /\ UNCHANGED <<pc, similarity_threshold, embedding_model, clauses_a, clauses_b,
                   matched_b, best_match_idx>>
    /\ UNCHANGED <<compareVars, matrixVars, profileVars, riskVars, textVars>>

\* return differences
ReturnDifferences ==
    /\ pc = "loop_b"
    /\ pos > Len(clauses_b)
    /\ pc' = "done"
    /\ UNCHANGED <<diffVars, compareVars, matrixVars, profileVars, riskVars, textVars>>

NextDiff == MatchClauseA \/ StartUnmatchedScan \/ UnmatchedClauseB \/ ReturnDifferences

SpecDiff == InitDiff /\ [][NextDiff]_vars

(***************************************************************************)
(* compare_clauses as one call (used by JurisdictionalComparator.compare)  *)
(***************************************************************************)
RECURSIVE LoopOverA(_, _, _, _, _, _, _)
LoopOverA(cls_a, cls_b, k, matched, diffs, jurisdiction_a, jurisdiction_b) ==
    IF k > Len(cls_a)
    THEN [diffs |-> diffs, matched |-> matched]
    ELSE LET r == MatchClause(cls_a[k], cls_b, matched, jurisdiction_a, jurisdiction_b)
         IN  LoopOverA(cls_a, cls_b, k + 1, r.matched, Append(diffs, r.diff),
                       jurisdiction_a, jurisdiction_b)

RECURSIVE LoopOverB(_, _, _, _, _, _)
LoopOverB(diffs, cls_b, matched, i, jurisdiction_a, jurisdiction_b) ==
    IF i > Len(cls_b)
    THEN diffs
    ELSE LoopOverB(UnmatchedClause(diffs, cls_b, matched, i, jurisdiction_a, jurisdiction_b),
                   cls_b, matched, i + 1, jurisdiction_a, jurisdiction_b)

compare_clauses(cls_a, cls_b, jurisdiction_a, jurisdiction_b) ==
    LET a == LoopOverA(cls_a, cls_b, 1, {}, <<>>, jurisdiction_a, jurisdiction_b)
    IN  LoopOverB(a.diffs, cls_b, a.matched, 1, jurisdiction_a, jurisdiction_b)

(***************************************************************************)
(* Definition, JurisdictionProfile, JurisdictionalGap                      *)
(***************************************************************************)
Definition(term, definition_text) == [term |-> term, definition_text |-> definition_text]

\* JurisdictionProfile._count_clause_types for one clause type
CountClauseType(clauses, clause_type) ==
    Cardinality({k \in DOMAIN clauses : clauses[k].clause_type = clause_type})

\* JurisdictionProfile after __post_init__
JurisdictionProfile(jurisdiction, clauses, definitions) ==
    [ jurisdiction |-> jurisdiction, clauses |-> clauses, definitions |-> definitions,
      obligation_count |-> CountClauseType(clauses, "obligation"),
      prohibition_count |-> CountClauseType(clauses, "prohibition"),
      permission_count |-> CountClauseType(clauses, "permission") ]

GapType == {"coverage_gap", "stricter_in_a", "stricter_in_b", "definitional_conflict",
            "threshold_difference", "timing_difference", "scope_difference", "ambiguity"}

JurisdictionalGap(gap_type, jurisdiction_a, jurisdiction_b, description, clause_a, clause_b, severity, confidence, recommendations, requires_legal_review) ==
    [ gap_type |-> gap_type, jurisdiction_a |-> jurisdiction_a,
      jurisdiction_b |-> jurisdiction_b, description |-> description,
      clause_a |-> clause_a, clause_b |-> clause_b, severity |-> severity,
      confidence |-> confidence, recommendations |-> recommendations,
      requires_legal_review |-> requires_legal_review ]

\* Python None returned by _diff_to_gap
NoGap == [gap_type |-> "None"]

(***************************************************************************)
(* JurisdictionalComparator                                                *)
(***************************************************************************)
\* gap_type_map with the two directions exchanged
gap_type_map_Swapped(difference_type) ==
    CASE difference_type = "stricter"    -> "stricter_in_b"
      [] difference_type = "looser"      -> "stricter_in_a"
      [] difference_type = "ambiguous"   -> "ambiguity"
      [] difference_type = "conflicting" -> "scope_difference"
      [] difference_type = "novel"       -> "coverage_gap"
      [] OTHER                           -> "ambiguity"

\* gap_type_map.get(diff.difference_type, GapType.AMBIGUITY)
gap_type_map(difference_type) ==
    CASE difference_type = "stricter"    -> "stricter_in_a"
      [] difference_type = "looser"      -> "stricter_in_b"
      [] difference_type = "ambiguous"   -> "ambiguity"
      [] difference_type = "conflicting" -> "scope_difference"
      [] difference_type = "novel"       -> "coverage_gap"
      [] OTHER                           -> "ambiguity"

_generate_recommendations(diff, gap_type) ==
    LET first ==
            CASE gap_type = "coverage_gap" ->
                   <<"REVIEW REQUIRED: Evaluate whether this requirement applies to your operations">>
              [] gap_type = "stricter_in_a" ->
                   <<"LEGAL REVIEW: First jurisdiction may have stricter requirements">>
              [] gap_type = "stricter_in_b" ->
                   <<"LEGAL REVIEW: Second jurisdiction may have stricter requirements">>
              [] gap_type = "ambiguity" ->
                   <<"HIGH PRIORITY REVIEW: Ambiguous language creates enforcement uncertainty">>
              [] OTHER -> <<>>
    IN  IF diff.requires_legal_review
        THEN Append(first,
                 "MANDATORY: This gap requires qualified legal review before any decision")
        ELSE first

\* _calculate_severity giving an obligation the prohibition's increment
_calculate_severity_SameIncrement(diff) ==
    LET base == <<1, 2>>
        with_type ==
            IF diff.clause_a.clause_type \in {"prohibition", "obligation"}
            THEN RatAdd(base, <<1, 5>>)
            ELSE base
        with_diff ==
            IF diff.difference_type \in {"ambiguous", "conflicting"}
            THEN RatAdd(with_type, <<1, 5>>)
            ELSE with_type
        base_severity == RatAdd(with_diff, RatMul(RatSub(One, diff.confidence), <<1, 10>>))
    IN  RatMin(One, base_severity)

_calculate_severity(diff) ==
    LET base == <<1, 2>>
        with_type ==
            IF diff.clause_a.clause_type = "prohibition" THEN RatAdd(base, <<1, 5>>)
            ELSE IF diff.clause_a.clause_type = "obligation" THEN RatAdd(base, <<3, 20>>)
            ELSE base
        with_diff ==
            IF diff.difference_type \in {"ambiguous", "conflicting"}
            THEN RatAdd(with_type, <<1, 5>>)
            ELSE with_type
        base_severity == RatAdd(with_diff, RatMul(RatSub(One, diff.confidence), <<1, 10>>))
    IN  RatMin(One, base_severity)

\* _diff_to_gap without the early return for EQUIVALENT
_diff_to_gap_KeepEquivalent(diff, jurisdiction_a, jurisdiction_b) ==
    LET gap_type == gap_type_map(diff.difference_type)
    IN  JurisdictionalGap(gap_type, jurisdiction_a, jurisdiction_b, diff.analysis,
                          diff.clause_a, diff.clause_b, _calculate_severity(diff),
                          diff.confidence, _generate_recommendations(diff, gap_type),
                          diff.requires_legal_review)

_diff_to_gap(diff, jurisdiction_a, jurisdiction_b) ==
    IF diff.difference_type = "equivalent"
    THEN NoGap
    ELSE LET gap_type == gap_type_map(diff.difference_type)
         IN  JurisdictionalGap(gap_type, jurisdiction_a, jurisdiction_b, diff.analysis,
                               diff.clause_a, diff.clause_b, _calculate_severity(diff),
                               diff.confidence, _generate_recommendations(diff, gap_type),
                               diff.requires_legal_review)

\* for diff in clause_diffs: gap = _diff_to_gap(...); if gap: gaps.append(gap)
RECURSIVE ClauseGaps(_, _, _, _)
ClauseGaps(diffs, k, jurisdiction_a, jurisdiction_b) ==
    IF k > Len(diffs)
    THEN <<>>
    ELSE LET gap == _diff_to_gap(diffs[k], jurisdiction_a, jurisdiction_b)
         IN  IF gap # NoGap
             THEN <<gap>> \o ClauseGaps(diffs, k + 1, jurisdiction_a, jurisdiction_b)
             ELSE ClauseGaps(diffs, k + 1, jurisdiction_a, jurisdiction_b)

\* {d.term.lower(): d for d in defs}: the keys, and the value kept for a key (the last one)
TermKeys(defs) == {Lower(defs[k].term) : k \in DOMAIN defs}

TermLookup(defs, term) ==
    LET last == CHOOSE k \in DOMAIN defs :
                    /\ Lower(defs[k].term) = term
                    /\ \A m \in DOMAIN defs : Lower(defs[m].term) = term => m <= k
    IN  defs[last]

DefinitionalConflictGap(term, jurisdiction_a, jurisdiction_b) ==
    JurisdictionalGap("definitional_conflict", jurisdiction_a, jurisdiction_b,
                      <<"Term", term, "has different definitions">>,
                      NoClause, NoClause, <<7, 10>>, <<4, 5>>,
                      << <<"LEGAL REVIEW: Definitional conflict for", term>>,
                         "Determine which definition applies to your operations",
                         "Consider most restrictive interpretation for compliance" >>,
                      TRUE)

\* The common terms whose definition texts differ case-insensitively
ConflictingTerms(defs_a, defs_b) ==
    {term \in TermKeys(defs_a) \cap TermKeys(defs_b) :
        LowerText(TermLookup(defs_a, term).definition_text)
            # LowerText(TermLookup(defs_b, term).definition_text)}

\* _compare_definitions iterates over a Python set of str, whose order is not fixed:
\* every ordering of the conflicting terms is a possible result
_compare_definitions(defs_a, defs_b, jurisdiction_a, jurisdiction_b) ==
    LET terms == ConflictingTerms(defs_a, defs_b)
        n == Cardinality(terms)
        orders == {o \in [1..n -> terms] : \A i, j \in 1..n : i # j => o[i] # o[j]}
    IN  {[k \in 1..n |-> DefinitionalConflictGap(o[k], jurisdiction_a, jurisdiction_b)] :
            o \in orders}

BurdenGap(prof_a, prof_b, heavier, lighter) ==
    JurisdictionalGap("scope_difference", prof_a.jurisdiction, prof_b.jurisdiction,
                      <<heavier.jurisdiction, "has significantly more obligations",
                        heavier.obligation_count, "vs", lighter.obligation_count>>,
                      NoClause, NoClause, <<3, 5>>, <<9, 10>>,
                      <<"Review additional obligations for applicability",
                        "Consider compliance burden in operational planning">>,
                      TRUE)

\* a >= b * 1.5 on integer counts
ExceedsOneAndAHalf_AtLeast(a, b) == 2 * a >= 3 * b

\* a > b * 1.5 on integer counts
ExceedsOneAndAHalf(a, b) == 2 * a > 3 * b

_analyze_regulatory_burden(prof_a, prof_b) ==
    IF ExceedsOneAndAHalf(prof_a.obligation_count, prof_b.obligation_count)
    THEN <<BurdenGap(prof_a, prof_b, prof_a, prof_b)>>
    ELSE IF ExceedsOneAndAHalf(prof_b.obligation_count, prof_a.obligation_count)
    THEN <<BurdenGap(prof_a, prof_b, prof_b, prof_a)>>
    ELSE <<>>

\* JurisdictionalComparator.compare: the possible returned lists, with the clause_diffs
\* they were built from
compare(prof_a, prof_b) ==
    LET diffs == compare_clauses(prof_a.clauses, prof_b.clauses,
                                 prof_a.jurisdiction, prof_b.jurisdiction)
        clause_gaps == ClauseGaps(diffs, 1, prof_a.jurisdiction, prof_b.jurisdiction)
        burden_gaps == _analyze_regulatory_burden(prof_a, prof_b)
    IN  { [clause_diffs |-> diffs, gaps |-> clause_gaps \o definition_gaps \o burden_gaps] :
            definition_gaps \in _compare_definitions(prof_a.definitions, prof_b.definitions,
                                                     prof_a.jurisdiction, prof_b.jurisdiction) }

(***************************************************************************)
(* One call of compare on two profiles (SpecCompare)                       *)
(***************************************************************************)
DefinitionLists ==
    { <<>>,
      <<Definition("Broker", <<"A", "person">>), Definition("dealer", <<"a", "firm">>)>>,
      <<Definition("broker", <<"a", "person">>), Definition("dealer", <<"a", "bank">>),
        Definition("broker", <<"an", "entity">>)>>,
      <<Definition("dealer", <<"a", "bank">>)>> }

\* The SemanticDiff configurations handed to the comparator: <<threshold, embedding model>>
ComparatorConfigs == { <<<<1, 2>>, "None">>, <<<<1, 2>>, "E1">> }

InitCompare ==
    /\ \E cfg \in ComparatorConfigs :
          /\ similarity_threshold = cfg[1]
          /\ embedding_model = cfg[2]
    /\ \E ca \in SeqsUpTo(ClauseUniverse, MaxClauses), da \in DefinitionLists :
          profile_a = JurisdictionProfile("US", ca, da)
    /\ \E cb \in SeqsUpTo(ClauseUniverse, MaxClauses), db \in DefinitionLists :
          profile_b = JurisdictionProfile("EU", cb, db)
    /\ clause_diffs = <<>>
    /\ gaps = <<>>
    /\ pc = "compare"
    /\ clauses_a = <<>>
    /\ clauses_b = <<>>
    /\ differences = <<>>
    /\ matched_b = {}
    /\ best_match_idx = <<>>
    /\ pos = 0
    /\ profiles = <<>>
    /\ matrix = <<>>
    /\ compare_calls = <<>>
    /\ mi = 0
    /\ mj = 0
    /\ ProfileIdle
    /\ RiskIdle
    /\ TextIdle

\* gaps = comparator.compare(profile_a, profile_b)
CompareCall ==
    /\ pc = "compare"
    /\ \E r \in compare(profile_a, profile_b) :
          /\ clause_diffs' = r.clause_diffs
          /\ gaps' = r.gaps
    /\ pc' = "done"
    /\ UNCHANGED <<profile_a, profile_b, diffVars, matrixVars, profileVars, riskVars, textVars>>

NextCompare == CompareCall

SpecCompare == InitCompare /\ [][NextCompare]_vars

(***************************************************************************)
(* JurisdictionalComparator.generate_gap_matrix (SpecMatrix)               *)
(***************************************************************************)
ProfileUniverse ==
    { JurisdictionProfile("US", <<RegulatoryClause(<<"Firms", "shall", "report", "daily">>,
                                                   "obligation")>>, <<>>),
      JurisdictionProfile("EU", <<RegulatoryClause(<<"firms", "MAY", "report", "daily">>,
                                                   "permission")>>,
                          <<Definition("Broker", <<"A", "person">>)>>),
      JurisdictionProfile("UK", <<RegulatoryClause(<<"firms", "must", "report", "daily">>,
                                                   "obligation"),
                                  RegulatoryClause(<<"Firms", "shall", "report", "daily">>,
                                                   "obligation")>>,
                          <<Definition("broker", <<"an", "entity">>)>>),
      JurisdictionProfile("US", <<>>, <<>>) }

\* SemanticDiff() as built by JurisdictionalComparator() without arguments
DefaultThreshold == <<7, 10>>

\* the inner loop over profiles[i:] instead of profiles[i + 1:]
FirstInnerIndex_Self(i) == i

\* profiles[i + 1:] starts at the profile after the i-th
FirstInnerIndex(i) == i + 1

InitMatrix ==
    /\ profiles \in SeqsUpTo(ProfileUniverse, MaxProfiles)
    /\ matrix = <<>>
    /\ compare_calls = <<>>
    /\ mi = 1
    /\ mj = FirstInnerIndex(1)
    /\ pc = "matrix"
    /\ similarity_threshold = DefaultThreshold
    /\ embedding_model = "None"
    /\ clauses_a = <<>>
    /\ clauses_b = <<>>
    /\ differences = <<>>
    /\ matched_b = {}
    /\ best_match_idx = <<>>
    /\ pos = 0
    /\ profile_a = NoClause
    /\ profile_b = NoClause
    /\ clause_diffs = <<>>
    /\ gaps = <<>>
    /\ ProfileIdle
    /\ RiskIdle
    /\ TextIdle

\* matrix[key] = value
DictSet(dict, key, value) ==
    [k \in DOMAIN dict \cup {key} |-> IF k = key THEN value ELSE dict[k]]

\* gaps = self.compare(profile_a, profile_b); matrix[(a.jurisdiction, b.jurisdiction)] = gaps
ComparePair ==
    /\ pc = "matrix"
    /\ mi <= Len(profiles)
    /\ mj <= Len(profiles)
    /\ \E r \in compare(profiles[mi], profiles[mj]) :
          matrix' = DictSet(matrix,
                            <<profiles[mi].jurisdiction, profiles[mj].jurisdiction>>, r.gaps)
    /\ compare_calls' = Append(compare_calls, <<mi, mj>>)
    /\ mj' = mj + 1
    /\ UNCHANGED <<pc, mi, profiles, diffVars, compareVars, profileVars, riskVars, textVars>>

\* the inner loop is exhausted: the outer loop takes the next profile_a
NextProfileA ==
    /\ pc = "matrix"
    /\ mi <= Len(profiles)
    /\ mj > Len(profiles)
    /\ mi' = mi + 1
    /\ mj' = FirstInnerIndex(mi + 1)
    /\ UNCHANGED <<pc, profiles, matrix, compare_calls, diffVars, compareVars, profileVars,
                   riskVars, textVars>>

\* return matrix
ReturnMatrix ==
    /\ pc = "matrix"
    /\ mi > Len(profiles)
    /\ pc' = "done"
    /\ UNCHANGED <<matrixVars, diffVars, compareVars, profileVars, riskVars, textVars>>

NextMatrix == ComparePair \/ NextProfileA \/ ReturnMatrix

SpecMatrix == InitMatrix /\ [][NextMatrix]_vars

(***************************************************************************)
(* Construction of a JurisdictionProfile and its use by compare            *)
(* (SpecProfile)                                                           *)
(***************************************************************************)
\* The fields as the generated __init__ stores them, before __post_init__ runs
JurisdictionProfileFields(jurisdiction, clauses, definitions, obligation_count, prohibition_count, permission_count) ==
    [ jurisdiction |-> jurisdiction, clauses |-> clauses, definitions |-> definitions,
      obligation_count |-> obligation_count, prohibition_count |-> prohibition_count,
      permission_count |-> permission_count ]

\* _count_clause_types leaving the passed values in place
_count_clause_types_KeepPassed(self) == self

\* JurisdictionProfile._count_clause_types
_count_clause_types(self) ==
    [self EXCEPT !.obligation_count = CountClauseType(self.clauses, "obligation"),
                 !.prohibition_count = CountClauseType(self.clauses, "prohibition"),
                 !.permission_count = CountClauseType(self.clauses, "permission")]

\* Count values a caller passes to the constructor
PassedCounts == 0..MaxClauses

InitProfile ==
    /\ \E cl \in SeqsUpTo(ClauseUniverse, MaxClauses), counts \in PassedCounts \X PassedCounts \X PassedCounts :
          /\ passed_counts = counts
          /\ profile_a = JurisdictionProfileFields("US", cl, <<>>, counts[1], counts[2], counts[3])
    /\ profile_b \in ProfileUniverse
    /\ pc = "post_init"
    /\ similarity_threshold = DefaultThreshold
    /\ embedding_model = "None"
    /\ clause_diffs = <<>>
    /\ gaps = <<>>
    /\ clauses_a = <<>>
    /\ clauses_b = <<>>
    /\ differences = <<>>
    /\ matched_b = {}
    /\ best_match_idx = <<>>
    /\ pos = 0
    /\ profiles = <<>>
    /\ matrix = <<>>
    /\ compare_calls = <<>>
    /\ mi = 0
    /\ mj = 0
    /\ RiskIdle
    /\ TextIdle

\* def __post_init__(self): self._count_clause_types()
PostInit ==
    /\ pc = "post_init"
    /\ profile_a' = _count_clause_types(profile_a)
    /\ pc' = "compare"
    /\ UNCHANGED <<profile_b, clause_diffs, gaps, diffVars, matrixVars, profileVars, riskVars, textVars>>

NextProfile == PostInit \/ CompareCall

SpecProfile == InitProfile /\ [][NextProfile]_vars

(***************************************************************************)
(* EnforcementModel (risk/enforcement_model.py)                            *)
(***************************************************************************)
RatMax(x, y) == IF RatGe(x, y) THEN x ELSE y

\* round(x, digits) of a non-negative value, ties to even, as a rational
RoundTo(x, digits) ==
    LET scale == 10 ^ digits
        \* long division, one decimal at a time: <<decimals so far, remainder>>
        Decimals[k \in 0..digits] ==
            IF k = 0 THEN <<0, x[1] % x[2]>>
            ELSE LET before == Decimals[k - 1]
                 IN  <<before[1] * 10 + (before[2] * 10) \div x[2],
                       (before[2] * 10) % x[2]>>
        q == (x[1] \div x[2]) * scale + Decimals[digits][1]
        r == Decimals[digits][2]
        up == \/ 2 * r > x[2]
              \/ 2 * r = x[2] /\ q % 2 = 1
    IN  Rat(IF up THEN q + 1 ELSE q, scale)

\* Decimal digits of a natural number, most significant first
RECURSIVE DecimalDigits(_)
DecimalDigits(n) == IF n < 10 THEN <<n>> ELSE Append(DecimalDigits(n \div 10), n % 10)

\* The format specification {n:0<width>d}: zero-padded on the left to at least width digits
ZeroPadded(n, width) ==
    LET Pad(digits) == [k \in 1..width |-> IF k <= width - Len(digits)
                                           THEN 0 ELSE digits[k - (width - Len(digits))]]
    IN  IF Len(DecimalDigits(n)) >= width THEN DecimalDigits(n) ELSE Pad(DecimalDigits(n))

\* An identifier f"{prefix}-{n:0<width>d}"
FormattedId(prefix, n, width) == [prefix |-> prefix, digits |-> ZeroPadded(n, width)]

EnforcementLikelihood ==
    [ VERY_LOW |-> <<1, 10>>, LOW |-> <<1, 4>>, MODERATE |-> <<1, 2>>, HIGH |-> <<3, 4>>,
      VERY_HIGH |-> <<9, 10>> ]

EnforcementOutcome ==
    {"warning", "fine", "cease_and_desist", "license_suspension", "license_revocation",
     "criminal_referral", "restitution", "injunction"}

AmbiguityType ==
    {"vague_standard", "undefined_term", "circular_definition", "conflicting_clauses",
     "scope_unclear", "timing_unclear", "threshold_unclear", "reference_ambiguity"}

AmbiguityInstance(text, ambiguity_type, severity) ==
    [text |-> text, ambiguity_type |-> ambiguity_type, severity |-> severity]

\* A RegulatoryClause with the fields the enforcement model reads
ClauseWithLimits(text, clause_type, conditions, exceptions) ==
    [text |-> text, clause_type |-> clause_type, conditions |-> conditions,
     exceptions |-> exceptions]

\* CLAUSE_TYPE_LIKELIHOOD.get(clause_type, EnforcementLikelihood.MODERATE)
CLAUSE_TYPE_LIKELIHOOD(clause_type) ==
    CASE clause_type = "prohibition" -> "HIGH"
      [] clause_type = "obligation"  -> "MODERATE"
      [] clause_type = "condition"   -> "LOW"
      [] clause_type = "permission"  -> "VERY_LOW"
      [] clause_type = "definition"  -> "VERY_LOW"
      [] clause_type = "exception"   -> "LOW"
      [] OTHER                       -> "MODERATE"

\* AMBIGUITY_IMPACT.get(ambiguity_type, 0.1)
AMBIGUITY_IMPACT(ambiguity_type) ==
    CASE ambiguity_type = "vague_standard"      -> <<1, 10>>
      [] ambiguity_type = "undefined_term"      -> <<3, 20>>
      [] ambiguity_type = "scope_unclear"       -> <<1, 10>>
      [] ambiguity_type = "timing_unclear"      -> <<3, 20>>
      [] ambiguity_type = "threshold_unclear"   -> <<1, 5>>
      [] ambiguity_type = "conflicting_clauses" -> <<1, 4>>
      [] ambiguity_type = "circular_definition" -> <<1, 10>>
      [] ambiguity_type = "reference_ambiguity" -> <<1, 10>>
      [] OTHER                                  -> <<1, 10>>

\* EnforcementModel.__init__
EnforcementModel(conservative_factor) ==
    [conservative_factor |-> RatMax(One, conservative_factor), _scenario_counter |-> 0]

\* for amb in ambiguities: score += impact * amb.severity
RECURSIVE AddAmbiguityImpacts(_, _, _)
AddAmbiguityImpacts(score, ambiguities, k) ==
    IF k > Len(ambiguities) THEN score
    ELSE AddAmbiguityImpacts(
             RatAdd(score, RatMul(AMBIGUITY_IMPACT(ambiguities[k].ambiguity_type),
                                  ambiguities[k].severity)),
             ambiguities, k + 1)

\* the score clamped to [0.05, 0.55]
AdjustedScore_LowCeiling(self, base, ambiguities) ==
    LET summed == AddAmbiguityImpacts(EnforcementLikelihood[base], ambiguities, 1)
        scaled == RatMul(summed, self.conservative_factor)
    IN  RatMin(<<11, 20>>, RatMax(<<1, 20>>, scaled))

\* The score of _adjust_likelihood after the clamp
AdjustedScore(self, base, ambiguities) ==
    LET summed == AddAmbiguityImpacts(EnforcementLikelihood[base], ambiguities, 1)
        scaled == RatMul(summed, self.conservative_factor)
    IN  RatMin(<<19, 20>>, RatMax(<<1, 20>>, scaled))

\* _adjust_likelihood with thresholds that must be exceeded
_adjust_likelihood_StrictThresholds(self, base, clause, ambiguities) ==
    LET score == AdjustedScore(self, base, ambiguities)
    IN  IF RatGt(score, <<4, 5>>) THEN "VERY_HIGH"
        ELSE IF RatGt(score, <<3, 5>>) THEN "HIGH"
        ELSE IF RatGt(score, <<2, 5>>) THEN "MODERATE"
        ELSE IF RatGt(score, <<1, 5>>) THEN "LOW"
        ELSE "VERY_LOW"

\* EnforcementModel._adjust_likelihood
_adjust_likelihood(self, base, clause, ambiguities) ==
    LET score == AdjustedScore(self, base, ambiguities)
    IN  IF RatGe(score, <<4, 5>>) THEN "VERY_HIGH"
        ELSE IF RatGe(score, <<3, 5>>) THEN "HIGH"
        ELSE IF RatGe(score, <<2, 5>>) THEN "MODERATE"
        ELSE IF RatGe(score, <<1, 5>>) THEN "LOW"
        ELSE "VERY_LOW"

\* _determine_outcomes suspending the licence for VERY_HIGH only
_determine_outcomes_SuspendVeryHigh(clause, likelihood) ==
    IF clause.clause_type = "prohibition"
    THEN <<"cease_and_desist", "fine">>
            \o (IF RatGe(EnforcementLikelihood[likelihood], <<4, 5>>)
                THEN <<"license_suspension">> ELSE <<>>)
    ELSE <<"warning">>

_determine_outcomes(clause, likelihood) ==
    IF clause.clause_type = "prohibition"
    THEN <<"cease_and_desist", "fine">>
            \o (IF RatGe(EnforcementLikelihood[likelihood], <<7, 10>>)
                THEN <<"license_suspension">> ELSE <<>>)
    ELSE IF clause.clause_type = "obligation"
    THEN <<"warning">>
            \o (IF RatGe(EnforcementLikelihood[likelihood], <<1, 2>>)
                THEN <<"fine">> ELSE <<>>)
            \o (IF RatGe(EnforcementLikelihood[likelihood], <<3, 4>>)
                THEN <<"cease_and_desist">> ELSE <<>>)
    ELSE <<"warning">>

\* outcome_severity.get(o, 0.5)
outcome_severity(outcome) ==
    CASE outcome = "warning"            -> <<1, 10>>
      [] outcome = "fine"               -> <<2, 5>>
      [] outcome = "cease_and_desist"   -> <<3, 5>>
      [] outcome = "license_suspension" -> <<4, 5>>
      [] outcome = "license_revocation" -> <<19, 20>>
      [] outcome = "criminal_referral"  -> <<1, 1>>
      [] outcome = "restitution"        -> <<1, 2>>
      [] outcome = "injunction"         -> <<7, 10>>
      [] OTHER                          -> <<1, 2>>

\* EnforcementModel._calculate_severity
_calculate_scenario_severity(self, clause, ambiguities, outcomes) ==
    LET max_outcome_severity ==
            IF outcomes = <<>> THEN <<3, 10>>
            ELSE outcome_severity(
                     CHOOSE o \in {outcomes[k] : k \in DOMAIN outcomes} :
                         \A k \in DOMAIN outcomes :
                             RatGe(outcome_severity(o), outcome_severity(outcomes[k])))
        ambiguity_factor == RatMin(<<3, 10>>, RatMul(<<Len(ambiguities), 1>>, <<1, 20>>))
    IN  RatMin(One, RatMul(RatAdd(max_outcome_severity, ambiguity_factor),
                           self.conservative_factor))

\* The sentence _generate_max_interpretation adds for one ambiguity (none for most types)
InterpretationOfAmbiguity(amb) ==
    CASE amb.ambiguity_type = "vague_standard" ->
             <<amb.text, "would be interpreted against the regulated entity.">>
      [] amb.ambiguity_type = "timing_unclear" ->
             <<"Timing requirements would be interpreted as requiring immediate action.">>
      [] amb.ambiguity_type = "threshold_unclear" ->
             <<"Thresholds would be set at the most stringent reasonable level.">>
      [] OTHER -> <<>>

_generate_max_interpretation(clause, ambiguities) ==
    LET top == SubSeq(ambiguities, 1, IF Len(ambiguities) < 3 THEN Len(ambiguities) ELSE 3)
        Parts[k \in 0..Len(top)] ==
            IF k = 0 THEN <<>> ELSE Parts[k - 1] \o InterpretationOfAmbiguity(top[k])
    IN  <<"MAXIMUM INTERPRETATION:">>
        \o (CASE clause.clause_type = "prohibition" ->
                     <<"This prohibition would be interpreted to cover the broadest possible scope.">>
              [] clause.clause_type = "obligation" ->
                     <<"This obligation would be interpreted with the strictest compliance standards.">>
              [] OTHER -> <<>>)
        \o Parts[Len(top)]
        \o <<"This represents a conservative planning scenario, not a prediction.">>

_identify_mitigating_factors(clause) ==
    (IF clause.conditions # <<>>
     THEN <<"Clause contains explicit conditions that may limit applicability">> ELSE <<>>)
    \o (IF clause.exceptions # <<>>
        THEN <<"Clause contains exceptions that may provide safe harbors">> ELSE <<>>)
    \o (IF clause.clause_type = "permission"
        THEN <<"Clause is permissive rather than mandatory">> ELSE <<>>)

_identify_aggravating_factors(clause, ambiguities) ==
    LET high_severity_amb == SelectSeq(ambiguities, LAMBDA a : RatGe(a.severity, <<7, 10>>))
    IN  (IF clause.clause_type = "prohibition"
         THEN <<"Prohibition clauses typically face stricter enforcement">> ELSE <<>>)
        \o (IF high_severity_amb # <<>>
            THEN << <<Len(high_severity_amb),
                      "high-severity ambiguities increase interpretation risk">> >>
            ELSE <<>>)
        \o (IF clause.conditions = <<>> /\ clause.exceptions = <<>>
            THEN <<"No explicit conditions or exceptions limits flexibility">> ELSE <<>>)

EnforcementScenario(scenario_id, description, interpretation, likelihood, potential_outcomes, severity_score, clause, ambiguities, mitigating_factors, aggravating_factors, requires_legal_review) ==
    [ scenario_id |-> scenario_id, description |-> description,
      interpretation |-> interpretation, likelihood |-> likelihood,
      potential_outcomes |-> potential_outcomes, severity_score |-> severity_score,
      clause |-> clause, ambiguities |-> ambiguities,
      mitigating_factors |-> mitigating_factors,
      aggravating_factors |-> aggravating_factors,
      requires_legal_review |-> requires_legal_review ]

\* conservative_factor arguments given to the constructor (the default is 1.2)
ConservativeFactors == { <<4, 5>>, <<6, 5>> }

\* One clause of every type
ScenarioClauses ==
    { ClauseWithLimits(<<"no", "firm", "may", "trade">>, "prohibition", <<>>, <<>>),
      ClauseWithLimits(<<"firms", "shall", "report">>, "obligation",
                       <<"if listed">>, <<>>),
      ClauseWithLimits(<<"firms", "may", "defer">>, "permission", <<>>, <<"unless barred">>),
      ClauseWithLimits(<<"if", "listed">>, "condition", <<"if listed">>, <<>>),
      ClauseWithLimits(<<"except", "banks">>, "exception", <<>>, <<"except banks">>),
      ClauseWithLimits(<<"broker", "means", "a", "person">>, "definition", <<>>, <<>>),
      ClauseWithLimits(<<"see", "annex">>, "unknown", <<>>, <<>>) }

\* The ambiguity lists passed with a clause (None is taken as the empty list); the
\* severity of an AmbiguityInstance is any float, the last list has a negative one
AmbiguityLists ==
    { <<>>,
      <<AmbiguityInstance("reasonable", "vague_standard", <<1, 2>>)>>,
      <<AmbiguityInstance("threshold", "threshold_unclear", <<4, 5>>),
        AmbiguityInstance("promptly", "timing_unclear", <<7, 10>>)>>,
      <<AmbiguityInstance("conflict", "conflicting_clauses", <<1, 1>>),
        AmbiguityInstance("dealer", "undefined_term", <<3, 5>>),
        AmbiguityInstance("adequate", "vague_standard", <<1, 2>>),
        AmbiguityInstance("persons", "scope_unclear", <<3, 10>>)>>,
      <<AmbiguityInstance("see above", "reference_ambiguity", <<1, 1>>)>>,
      <<AmbiguityInstance("settled", "conflicting_clauses", <<-1, 1>>)>> }

\* Lines 137-157 of model_clause_risk: everything the scenario holds besides its ID
AssessRisk(self, clause, ambiguities) ==
    LET base_likelihood == CLAUSE_TYPE_LIKELIHOOD(clause.clause_type)
        likelihood == _adjust_likelihood(self, base_likelihood, clause, ambiguities)
        outcomes == _determine_outcomes(clause, likelihood)
    IN  [ likelihood |-> likelihood,
          outcomes |-> outcomes,
          severity |-> _calculate_scenario_severity(self, clause, ambiguities, outcomes),
          interpretation |-> _generate_max_interpretation(clause, ambiguities),
          mitigating |-> _identify_mitigating_factors(clause),
          aggravating |-> _identify_aggravating_factors(clause, ambiguities) ]

\* AssessRisk tabulated over the instances and inputs of the model
RiskAssessments ==
    [ factor \in {EnforcementModel(f).conservative_factor : f \in ConservativeFactors} |->
        [ clause \in ScenarioClauses |->
            [ ambiguities \in AmbiguityLists |->
                AssessRisk(EnforcementModel(factor), clause, ambiguities) ] ] ]

RiskAssessment(self, clause, ambiguities) ==
    RiskAssessments[self.conservative_factor][clause][ambiguities]

\* The scenario returned once the counter was raised to `counter`
ScenarioFor(counter, clause, ambiguities, assessment, requires_legal_review) ==
    EnforcementScenario(
        FormattedId("ENF", counter, 4),
        <<"Enforcement scenario for", clause.clause_type, "clause">>,
        assessment.interpretation, assessment.likelihood, assessment.outcomes,
        assessment.severity, clause, ambiguities, assessment.mitigating,
        assessment.aggravating, requires_legal_review)

\* model_clause_risk numbering its scenario without raising the counter
model_clause_risk_KeepCounter(self, clause, ambiguities) ==
    [ self |-> self,
      scenario |-> ScenarioFor(self._scenario_counter + 1, clause, ambiguities,
                               RiskAssessment(self, clause, ambiguities), TRUE) ]

\* model_clause_risk asking for review of the likelier scenarios only
model_clause_risk_ReviewIfLikely(self, clause, ambiguities) ==
    LET counter == self._scenario_counter + 1
        assessment == RiskAssessment(self, clause, ambiguities)
    IN  [ self |-> [self EXCEPT !._scenario_counter = counter],
          scenario |-> ScenarioFor(counter, clause, ambiguities, assessment,
                                   RatGe(EnforcementLikelihood[assessment.likelihood],
                                         <<1, 2>>)) ]

\* EnforcementModel.model_clause_risk: the instance after the call and the returned scenario
model_clause_risk(self, clause, ambiguities) ==
    LET counter == self._scenario_counter + 1
    IN  [ self |-> [self EXCEPT !._scenario_counter = counter],
          scenario |-> ScenarioFor(counter, clause, ambiguities,
                                   RiskAssessment(self, clause, ambiguities), TRUE) ]

\* max(s.severity_score for s in scenarios)
MaxSeverity(scenarios) ==
    LET s == CHOOSE k \in DOMAIN scenarios :
                 \A m \in DOMAIN scenarios :
                     RatGe(scenarios[k].severity_score, scenarios[m].severity_score)
    IN  scenarios[s].severity_score

\* sum(s.severity_score for s in scenarios)
RECURSIVE SumSeverity(_, _)
SumSeverity(scenarios, k) ==
    IF k > Len(scenarios) THEN Zero
    ELSE RatAdd(scenarios[k].severity_score, SumSeverity(scenarios, k + 1))

\* EnforcementModel.generate_scenario_report
generate_scenario_report(scenarios) ==
    IF scenarios = <<>>
    THEN [total_scenarios |-> 0, message |-> "No enforcement scenarios modeled"]
    ELSE LET value(s) == EnforcementLikelihood[s.likelihood]
         IN  [ total_scenarios |-> Len(scenarios),
               high_risk_count |->
                   Len(SelectSeq(scenarios, LAMBDA s : RatGe(value(s), <<7, 10>>))),
               moderate_risk_count |->
                   Len(SelectSeq(scenarios, LAMBDA s : RatLe(<<2, 5>>, value(s))
                                                       /\ RatLt(value(s), <<7, 10>>))),
               low_risk_count |->
                   Len(SelectSeq(scenarios, LAMBDA s : RatLt(value(s), <<2, 5>>))),
               average_severity |->
                   RoundTo(RatMul(SumSeverity(scenarios, 1), <<1, Len(scenarios)>>), 3),
               max_severity |-> MaxSeverity(scenarios),
               all_require_review |->
                   \A k \in DOMAIN scenarios : scenarios[k].requires_legal_review ]

(***************************************************************************)
(* Sequential calls on EnforcementModel instances (SpecEnforcement)        *)
(***************************************************************************)
MaxCalls == 2        \* most model_clause_risk calls made on one instance

ModelInstances == {1, 2}

NoCall == [instance |-> 0]
NoReport == [total_scenarios |-> "None"]

\* Values of the variables of the comparison pipeline while it does not run
ComparisonIdle ==
    /\ similarity_threshold = DefaultThreshold
    /\ embedding_model = "None"
    /\ clauses_a = <<>>
    /\ clauses_b = <<>>
    /\ differences = <<>>
    /\ matched_b = {}
    /\ best_match_idx = <<>>
    /\ pos = 0
    /\ pc = "idle"
    /\ profile_a = NoClause
    /\ profile_b = NoClause
    /\ clause_diffs = <<>>
    /\ gaps = <<>>
    /\ profiles = <<>>
    /\ matrix = <<>>
    /\ compare_calls = <<>>
    /\ mi = 0
    /\ mj = 0
    /\ ProfileIdle

comparisonVars == <<diffVars, compareVars, matrixVars, pc, profileVars>>

InitEnforcement ==
    /\ enforcement_models \in [ModelInstances -> {EnforcementModel(f) : f \in ConservativeFactors}]
    /\ scenario_ids = [i \in ModelInstances |-> <<>>]
    /\ last_call = NoCall
    /\ scenario_report = NoReport
    /\ ComparisonIdle
    /\ TextIdle
    /\ RaceIdle
    /\ BoundsIdle

\* scenario = enforcement_models[i].model_clause_risk(clause, ambiguities)
ModelClauseRisk(i) ==
    /\ enforcement_models[i]._scenario_counter < MaxCalls
    /\ \E clause \in ScenarioClauses, ambiguities \in AmbiguityLists :
          LET r == model_clause_risk(enforcement_models[i], clause, ambiguities)
          IN  /\ enforcement_models' = [enforcement_models EXCEPT ![i] = r.self]
              /\ scenario_ids' = [scenario_ids EXCEPT ![i] = Append(@, r.scenario.scenario_id)]
              /\ last_call' = [instance |-> i, scenario |-> r.scenario]
    /\ scenario_report' = NoReport
    /\ UNCHANGED <<textVars, comparisonVars, raceVars, boundsVars>>

\* report = generate_scenario_report(scenarios), with the scenario returned last if any
GenerateScenarioReport ==
    /\ scenario_report' =
          generate_scenario_report(IF last_call = NoCall THEN <<>> ELSE <<last_call.scenario>>)
    /\ UNCHANGED <<enforcement_models, scenario_ids, last_call>>
    /\ UNCHANGED <<textVars, comparisonVars, raceVars, boundsVars>>

NextEnforcement ==
    \/ \E i \in ModelInstances : ModelClauseRisk(i)
    \/ GenerateScenarioReport

SpecEnforcement == InitEnforcement /\ [][NextEnforcement]_vars

(***************************************************************************)
(* Threads sharing one EnforcementModel and one ReportGenerator without    *)
(* synchronisation (SpecRace).  Each thread calls model_clause_risk and    *)
(* then generate_compliance_report; `counter += 1` is a load and a store,  *)
(* and the ID is formatted from a second load.                             *)
(***************************************************************************)
MaxThreads == 2      \* number of threads sharing the two instances

Threads == 1..MaxThreads

\* ReportGenerator.__init__: the default report_prefix
DefaultReportPrefix == "REG-GAP"

\* The methods a thread calls, in order
ThreadCalls == <<"model_clause_risk", "generate_compliance_report">>

InitRace ==
    /\ _scenario_counter = 0
    /\ _report_counter = 0
    /\ thread_op = [t \in Threads |-> 1]
    /\ thread_pc = [t \in Threads |-> "load"]
    /\ thread_loaded = [t \in Threads |-> 0]
    /\ thread_ids = [t \in Threads |-> <<>>]
    /\ ComparisonIdle
    /\ TextIdle
    /\ EnforcementIdle
    /\ BoundsIdle

InCall(t, method) ==
    /\ thread_op[t] \in DOMAIN ThreadCalls
    /\ ThreadCalls[thread_op[t]] = method

\* The value `counter += 1` stores, two more than the value loaded
IncrementOf_Two(loaded) == loaded + 2

\* The value `counter += 1` stores
IncrementOf(loaded) == loaded + 1

\* self._scenario_counter += 1, first half: the counter is read
LoadScenarioCounter(t) ==
    /\ InCall(t, "model_clause_risk")
    /\ thread_pc[t] = "load"
    /\ thread_loaded' = [thread_loaded EXCEPT ![t] = _scenario_counter]
    /\ thread_pc' = [thread_pc EXCEPT ![t] = "store"]
    /\ UNCHANGED <<_scenario_counter, _report_counter, thread_op, thread_ids>>
    /\ UNCHANGED <<textVars, comparisonVars, enforcementVars, boundsVars>>

\* self._scenario_counter += 1, second half: the sum is written back
StoreScenarioCounter(t) ==
    /\ InCall(t, "model_clause_risk")
    /\ thread_pc[t] = "store"
    /\ _scenario_counter' = IncrementOf(thread_loaded[t])
    /\ thread_pc' = [thread_pc EXCEPT ![t] = "format"]
    /\ UNCHANGED <<_report_counter, thread_op, thread_loaded, thread_ids>>
    /\ UNCHANGED <<textVars, comparisonVars, enforcementVars, boundsVars>>

\* scenario_id = f"ENF-{self._scenario_counter:04d}"; the scenario is built and returned
ReturnScenario(t) ==
    /\ InCall(t, "model_clause_risk")
    /\ thread_pc[t] = "format"
    /\ thread_ids' = [thread_ids EXCEPT ![t] = Append(@, FormattedId("ENF", _scenario_counter, 4))]
    /\ thread_op' = [thread_op EXCEPT ![t] = @ + 1]
    /\ thread_pc' = [thread_pc EXCEPT ![t] = "load"]
    /\ UNCHANGED <<_scenario_counter, _report_counter, thread_loaded>>
    /\ UNCHANGED <<textVars, comparisonVars, enforcementVars, boundsVars>>

\* self._report_counter += 1, first half
LoadReportCounter(t) ==
    /\ InCall(t, "generate_compliance_report")
    /\ thread_pc[t] = "load"
    /\ thread_loaded' = [thread_loaded EXCEPT ![t] = _report_counter]
    /\ thread_pc' = [thread_pc EXCEPT ![t] = "store"]
    /\ UNCHANGED <<_scenario_counter, _report_counter, thread_op, thread_ids>>
    /\ UNCHANGED <<textVars, comparisonVars, enforcementVars, boundsVars>>

\* self._report_counter += 1, second half
StoreReportCounter(t) ==
    /\ InCall(t, "generate_compliance_report")
    /\ thread_pc[t] = "store"
    /\ _report_counter' = IncrementOf(thread_loaded[t])
    /\ thread_pc' = [thread_pc EXCEPT ![t] = "format"]
    /\ UNCHANGED <<_scenario_counter, thread_op, thread_loaded, thread_ids>>
    /\ UNCHANGED <<textVars, comparisonVars, enforcementVars, boundsVars>>

\* report_id = f"{self.report_prefix}-{self._report_counter:05d}"; the report is returned
ReturnReport(t) ==
    /\ InCall(t, "generate_compliance_report")
    /\ thread_pc[t] = "format"
    /\ thread_ids' = [thread_ids EXCEPT
                         ![t] = Append(@, FormattedId(DefaultReportPrefix, _report_counter, 5))]
    /\ thread_op' = [thread_op EXCEPT ![t] = @ + 1]
    /\ thread_pc' = [thread_pc EXCEPT ![t] = "load"]
    /\ UNCHANGED <<_scenario_counter, _report_counter, thread_loaded>>
    /\ UNCHANGED <<textVars, comparisonVars, enforcementVars, boundsVars>>

NextRace ==
    \E t \in Threads :
        \/ LoadScenarioCounter(t)
        \/ StoreScenarioCounter(t)
        \/ ReturnScenario(t)
        \/ LoadReportCounter(t)
        \/ StoreReportCounter(t)
        \/ ReturnReport(t)

SpecRace == InitRace /\ [][NextRace]_vars

(***************************************************************************)
(* RiskInterval and ConfidenceBounds.aggregate_intervals                   *)
(* (risk/confidence_bounds.py)                                             *)
(***************************************************************************)
\* The fields as the generated __init__ stores them
RiskIntervalFields(point_estimate, lower_bound, upper_bound, confidence_level) ==
    [ point_estimate |-> point_estimate, lower_bound |-> lower_bound,
      upper_bound |-> upper_bound, confidence_level |-> confidence_level ]

\* __post_init__ accepting every interval
PostInitRaises_Never(self) == "None"

\* RiskInterval.__post_init__: the exception its assert statements raise, "None" if none
PostInitRaises(self) ==
    IF ~ ( /\ RatLe(Zero, self.lower_bound)
           /\ RatLe(self.lower_bound, self.point_estimate)
           /\ RatLe(self.point_estimate, self.upper_bound)
           /\ RatLe(self.upper_bound, One) )
    THEN "AssertionError"
    ELSE IF ~ (RatLt(Zero, self.confidence_level) /\ RatLt(self.confidence_level, One))
    THEN "AssertionError"
    ELSE "None"

NoInterval == [point_estimate |-> "None"]

\* RiskInterval(...): the exception raised and the object made (none when it raises)
RiskInterval(point_estimate, lower_bound, upper_bound, confidence_level) ==
    LET self == RiskIntervalFields(point_estimate, lower_bound, upper_bound, confidence_level)
        exception == PostInitRaises(self)
    IN  [raised |-> exception, value |-> IF exception = "None" THEN self ELSE NoInterval]

\* ConfidenceBounds.__init__
ConfidenceBounds(confidence_level, conservative_bias) ==
    [confidence_level |-> confidence_level, conservative_bias |-> conservative_bias]

\* sum, min and max of a field over a non-empty list of intervals
FieldSum(list, field) ==
    LET Partial[k \in 0..Len(list)] ==
            IF k = 0 THEN Zero ELSE RatAdd(Partial[k - 1], list[k][field])
    IN  Partial[Len(list)]

FieldMin(list, field) ==
    LET Partial[k \in 1..Len(list)] ==
            IF k = 1 THEN list[1][field] ELSE RatMin(Partial[k - 1], list[k][field])
    IN  Partial[Len(list)]

FieldMax(list, field) ==
    LET Partial[k \in 1..Len(list)] ==
            IF k = 1 THEN list[1][field] ELSE RatMax(Partial[k - 1], list[k][field])
    IN  Partial[Len(list)]

FieldMean(list, field) == RatMul(FieldSum(list, field), <<1, Len(list)>>)

AggregationMethods == {"conservative", "average", "max"}

\* ConfidenceBounds.aggregate_intervals: the exception raised and the interval returned
aggregate_intervals(self, list, method) ==
    IF list = <<>>
    THEN RiskInterval(<<1, 2>>, <<1, 4>>, <<3, 4>>, self.confidence_level)
    ELSE IF method \notin AggregationMethods
    THEN [raised |-> "ValueError", value |-> NoInterval]
    ELSE LET point == CASE method = "conservative" -> FieldMean(list, "point_estimate")
                        [] method = "average"      -> FieldMean(list, "point_estimate")
                        [] method = "max"          -> FieldMax(list, "point_estimate")
             lower == CASE method = "conservative" -> FieldMin(list, "lower_bound")
                        [] method = "average"      -> FieldMean(list, "lower_bound")
                        [] method = "max"          -> FieldMax(list, "lower_bound")
             upper == CASE method = "conservative" -> FieldMax(list, "upper_bound")
                        [] method = "average"      -> FieldMean(list, "upper_bound")
                        [] method = "max"          -> FieldMax(list, "upper_bound")
             ordered == RatMax(lower, RatMin(upper, point))
         IN  RiskInterval(RoundTo(ordered, 4), RoundTo(lower, 4), RoundTo(upper, 4),
                          self.confidence_level)

RatDiv(x, y) == Rat(x[1] * y[2], x[2] * y[1])

\* ConfidenceBounds.BASE_UNCERTAINTY.get(assessment_type, 0.25)
BASE_UNCERTAINTY(assessment_type) ==
    CASE assessment_type = "clause_extraction"    -> <<3, 20>>
      [] assessment_type = "ambiguity_detection"  -> <<1, 5>>
      [] assessment_type = "semantic_comparison"  -> <<1, 4>>
      [] assessment_type = "enforcement_modeling" -> <<3, 10>>
      [] assessment_type = "jurisdictional_gap"   -> <<1, 5>>
      [] OTHER                                    -> <<1, 4>>

\* math.sqrt of a square number
Sqrt(n) == CHOOSE r \in 1..n : r * r = n

\* ConfidenceBounds._approximate_z_score
_approximate_z_score(confidence) ==
    CASE confidence = <<9, 10>>   -> <<329, 200>>
      [] confidence = <<19, 20>>  -> <<49, 25>>
      [] confidence = <<99, 100>> -> <<322, 125>>
      [] OTHER ->
            IF RatLt(confidence, <<9, 10>>)
            THEN RatMul(<<329, 200>>, RatDiv(confidence, <<9, 10>>))
            ELSE IF RatLt(confidence, <<19, 20>>)
            THEN RatAdd(<<329, 200>>,
                        RatMul(RatSub(<<49, 25>>, <<329, 200>>),
                               RatDiv(RatSub(confidence, <<9, 10>>), <<1, 20>>)))
            ELSE RatAdd(<<49, 25>>,
                        RatMul(RatSub(<<322, 125>>, <<49, 25>>),
                               RatDiv(RatSub(confidence, <<19, 20>>), <<1, 25>>)))

\* the half-width of calculate_bounds: z * uncertainty
HalfWidth(self, assessment_type, sample_confidence, n_observations) ==
    LET base_uncertainty == BASE_UNCERTAINTY(assessment_type)
        confidence_factor == RatAdd(One, RatMul(RatSub(One, sample_confidence), <<1, 2>>))
        widened == RatMul(base_uncertainty, confidence_factor)
        uncertainty == IF n_observations > 1
                       THEN RatDiv(widened, <<Sqrt(n_observations), 1>>)
                       ELSE widened
    IN  RatMul(_approximate_z_score(self.confidence_level), uncertainty)

\* the lower bound pushed further down than the upper bound is pushed up
BiasedLower_Wider(self, point_estimate, half_width) ==
    RatMax(Zero, RatSub(point_estimate, RatMul(half_width, RatAdd(One, RatAdd(self.conservative_bias, <<1, 100>>)))))

\* lower = max(0, point_estimate - half_width * (1 - self.conservative_bias))
BiasedLower(self, point_estimate, half_width) ==
    RatMax(Zero, RatSub(point_estimate, RatMul(half_width, RatSub(One, self.conservative_bias))))

\* the upper bound left above 1
BiasedUpper_Unclamped(self, point_estimate, half_width) ==
    RatAdd(point_estimate, RatMul(half_width, RatAdd(One, self.conservative_bias)))

\* upper = min(1, point_estimate + half_width * (1 + self.conservative_bias))
BiasedUpper(self, point_estimate, half_width) ==
    RatMin(One, RatAdd(point_estimate, RatMul(half_width, RatAdd(One, self.conservative_bias))))

\* ConfidenceBounds.calculate_bounds: the exception raised and the interval returned
calculate_bounds(self, point_estimate, assessment_type, sample_confidence, n_observations) ==
    LET half_width == HalfWidth(self, assessment_type, sample_confidence, n_observations)
        lower == BiasedLower(self, point_estimate, half_width)
        upper == BiasedUpper(self, point_estimate, half_width)
        ordered == RatMax(lower, RatMin(upper, point_estimate))
    IN  RiskInterval(RoundTo(ordered, 4), RoundTo(lower, 4), RoundTo(upper, 4),
                     self.confidence_level)

(***************************************************************************)
(* Callers of RiskInterval and aggregate_intervals (SpecBounds): intervals *)
(* are constructed from arbitrary arguments and the list built so far is   *)
(* aggregated by a ConfidenceBounds instance                               *)
(***************************************************************************)
MaxIntervals == 2

\* <<point_estimate, lower_bound, upper_bound, confidence_level>> passed to RiskInterval
IntervalArguments ==
    { <<p, l, u, <<19, 20>>>> : p \in { <<1, 4>>, <<3, 4>> },
                               l \in { <<1, 4>>, <<3, 4>> },
                               u \in { <<1, 4>>, <<3, 4>> } }
    \cup { <<<<1, 2>>, Zero, One, c>> : c \in { Zero, <<1, 2>>, <<19, 20>>, One, <<6, 5>> } }
    \cup { <<<<1, 4>>, <<-1, 10>>, <<3, 4>>, <<19, 20>>>>,
           <<<<3, 4>>, <<1, 4>>, <<11, 10>>, <<19, 20>>>> }

\* confidence_level passed to ConfidenceBounds: the default, one for each interpolation
\* branch of _approximate_z_score, and one outside (0, 1)
ConfidenceLevels == { <<1, 2>>, <<23, 25>>, <<19, 20>>, <<97, 100>>, One }

DefaultConservativeBias == <<1, 10>>

\* conservative_bias passed to ConfidenceBounds: the ends of [0, 1] and the default
ConservativeBiases == { Zero, DefaultConservativeBias, One }

\* the instances: every confidence level with the default bias, every bias with one
\* confidence level
BoundsInstances ==
    { ConfidenceBounds(c, DefaultConservativeBias) : c \in ConfidenceLevels }
    \cup { ConfidenceBounds(<<1, 2>>, b) : b \in ConservativeBiases }

\* point_estimate passed to calculate_bounds: in [0, 1], and one below
PointEstimates == { <<-1, 5>>, Zero, <<2, 3>>, One }

\* assessment_type passed to calculate_bounds: one of the table and one that is not
AssessmentTypes == {"clause_extraction", "other"}

SampleConfidences == { Zero, One }

\* n_observations passed to calculate_bounds: squares, so that math.sqrt is exact
ObservationCounts == {1, 4}

\* method names passed to aggregate_intervals: the three supported and one that is not
MethodNames == AggregationMethods \cup {"median"}

NoCallYet == [op |-> "None"]

InitBounds ==
    /\ confidence_bounds \in BoundsInstances
    /\ intervals = <<>>
    /\ bounds_call = NoCallYet
    /\ raised = "None"
    /\ aggregated = NoInterval
    /\ calculated = NoInterval
    /\ ComparisonIdle
    /\ TextIdle
    /\ EnforcementIdle
    /\ RaceIdle

\* RiskInterval(point_estimate, lower_bound, upper_bound, confidence_level)
ConstructRiskInterval ==
    /\ Len(intervals) < MaxIntervals
    /\ \E args \in IntervalArguments :
          LET r == RiskInterval(args[1], args[2], args[3], args[4])
          IN  /\ bounds_call' = [op |-> "RiskInterval", args |-> args]
              /\ raised' = r.raised
              /\ intervals' = IF r.raised = "None" THEN Append(intervals, r.value)
                                                   ELSE intervals
    /\ aggregated' = NoInterval
    /\ calculated' = NoInterval
    /\ UNCHANGED confidence_bounds
    /\ UNCHANGED <<textVars, comparisonVars, enforcementVars, raceVars>>

\* confidence_bounds.aggregate_intervals(intervals, method)
AggregateIntervals ==
    /\ \E method \in MethodNames :
          LET r == aggregate_intervals(confidence_bounds, intervals, method)
          IN  /\ bounds_call' = [op |-> "aggregate_intervals", method |-> method]
              /\ raised' = r.raised
              /\ aggregated' = r.value
    /\ calculated' = NoInterval
    /\ UNCHANGED <<confidence_bounds, intervals>>
    /\ UNCHANGED <<textVars, comparisonVars, enforcementVars, raceVars>>

\* calculate_bounds tabulated over the instances and arguments of the callers
CalculatedBounds ==
    [ self \in BoundsInstances |->
        [ point_estimate \in PointEstimates |->
            [ assessment_type \in AssessmentTypes |->
                [ sample_confidence \in SampleConfidences |->
                    [ n_observations \in ObservationCounts |->
                        calculate_bounds(self, point_estimate, assessment_type, sample_confidence, n_observations) ] ] ] ] ]

\* confidence_bounds.calculate_bounds(point_estimate, assessment_type, sample_confidence,
\* n_observations)
CalculateBounds ==
    /\ \E point_estimate \in PointEstimates, assessment_type \in AssessmentTypes,
          sample_confidence \in SampleConfidences, n_observations \in ObservationCounts :
          LET r == CalculatedBounds[confidence_bounds][point_estimate][assessment_type][sample_confidence][n_observations]
          IN  /\ bounds_call' = [op |-> "calculate_bounds",
                                 args |-> <<point_estimate, assessment_type,
                                            sample_confidence, n_observations>>]
              /\ raised' = r.raised
              /\ calculated' = r.value
    /\ aggregated' = NoInterval
    /\ UNCHANGED <<confidence_bounds, intervals>>
    /\ UNCHANGED <<textVars, comparisonVars, enforcementVars, raceVars>>

NextBounds ==
    \/ ConstructRiskInterval
    \/ AggregateIntervals
    \/ CalculateBounds

SpecBounds == InitBounds /\ [][NextBounds]_vars

(***************************************************************************)
(* AmbiguityDetector (comparison/ambiguity.py)                             *)
(* A document text is a sequence of passages separated by single spaces;   *)
(* a passage is a word, a phrase, or a run of plain words, with the number *)
(* of words and characters it takes in the text.                           *)
(***************************************************************************)
Passage(lexeme, words, chars) == [lexeme |-> lexeme, words |-> words, chars |-> chars]

Word(lexeme) == Passage(lexeme, 1, Len(lexeme))

\* `times` repetitions of a one-word lexeme separated by single spaces
PlainWords(lexeme, times) == Passage(lexeme, times, times * Len(lexeme) + (times - 1))

\* len(text.split())
WordCount(text) ==
    LET Partial[k \in 0..Len(text)] ==
            IF k = 0 THEN 0 ELSE Partial[k - 1] + text[k].words
    IN  Partial[Len(text)]

\* match.start() of a match at the beginning of passage k
StartOf(text, k) ==
    LET Partial[j \in 1..k] ==
            IF j = 1 THEN 0 ELSE Partial[j - 1] + text[j - 1].chars + 1
    IN  Partial[k]

\* AmbiguityDetector.VAGUE_STANDARDS in dictionary order: keyword, description, severity
VAGUE_STANDARDS ==
    << <<"reasonable", "Reasonable under the circumstances", <<3, 5>>>>,
       <<"appropriate", "Appropriate measures", <<3, 5>>>>,
       <<"adequate", "Adequate safeguards", <<3, 5>>>>,
       <<"sufficient", "Sufficient controls", <<1, 2>>>>,
       <<"material", "Material change/impact", <<7, 10>>>>,
       <<"significant", "Significant risk", <<3, 5>>>>,
       <<"substantial", "Substantial compliance", <<3, 5>>>>,
       <<"promptly", "Promptly notify", <<7, 10>>>>,
       <<"timely", "Timely manner", <<3, 5>>>>,
       <<"reasonable time", "Within a reasonable time", <<7, 10>>>>,
       <<"as soon as practicable", "As soon as practicable", <<3, 5>>>>,
       <<"to the extent practicable", "To the extent practicable", <<3, 5>>>>,
       <<"good faith", "Good faith effort", <<1, 2>>>>,
       <<"best efforts", "Best efforts", <<1, 2>>>>,
       <<"commercially reasonable", "Commercially reasonable efforts", <<1, 2>>>>,
       <<"duly", "Duly authorized", <<2, 5>>>>,
       <<"properly", "Properly maintained", <<1, 2>>>>,
       <<"as needed", "As needed basis", <<3, 5>>>>,
       <<"as appropriate", "As appropriate", <<3, 5>>>>,
       <<"in the ordinary course", "In the ordinary course of business", <<1, 2>>>> >>

\* The regex families: the lexemes each pattern matches, description, severity
SCOPE_UNCLEAR_PATTERNS ==
    << <<{"may include", "may apply", "might include", "might apply"}, "Scope may include", <<3, 5>>>>,
       <<{"including but not limited to"}, "Non-exhaustive list", <<1, 2>>>>,
       <<{"such as"}, "Exemplary list", <<2, 5>>>>,
       <<{"other similar", "other related", "other applicable"}, "Undefined other items", <<3, 5>>>>,
       <<{"and similar"}, "Similar items undefined", <<1, 2>>>>,
       <<{"or otherwise"}, "Catch-all provision", <<3, 5>>>>,
       <<{"to the extent applicable", "to the extent relevant"}, "Applicability unclear", <<3, 5>>>> >>

TIMING_UNCLEAR_PATTERNS ==
    << <<{"promptly"}, "Promptly - timing unspecified", <<7, 10>>>>,
       <<{"without delay", "without undue delay"}, "Without delay - no timeframe", <<3, 5>>>>,
       <<{"as soon as practicable", "as soon as possible", "as soon as reasonably practicable", "as soon as reasonably possible"}, "ASAP - no deadline", <<7, 10>>>>,
       <<{"in a timely manner", "in a timely fashion"}, "Timely - undefined", <<7, 10>>>>,
       <<{"periodically"}, "Periodically - frequency unclear", <<3, 5>>>>,
       <<{"from time to time"}, "From time to time - no schedule", <<1, 2>>>>,
       <<{"regularly"}, "Regularly - frequency unclear", <<1, 2>>>> >>

THRESHOLD_UNCLEAR_PATTERNS ==
    << <<{"material", "materially"}, "Material threshold undefined", <<7, 10>>>>,
       <<{"significant", "significantly"}, "Significant threshold undefined", <<3, 5>>>>,
       <<{"substantial", "substantially"}, "Substantial threshold undefined", <<3, 5>>>>,
       <<{"de minimis"}, "De minimis threshold unclear", <<3, 5>>>>,
       <<{"excessive"}, "Excessive threshold undefined", <<3, 5>>>>,
       <<{"unusual"}, "Unusual threshold undefined", <<1, 2>>>> >>

\* AmbiguityDetector.__init__; defined_terms are kept in lower case
AmbiguityDetector(defined_terms, severity_threshold) ==
    [defined_terms |-> defined_terms, severity_threshold |-> severity_threshold]

\* AmbiguityInstance with the position of the match
AmbiguityInstanceAt(text, ambiguity_type, trigger_phrase, position, severity) ==
    [ text |-> text, ambiguity_type |-> ambiguity_type, trigger_phrase |-> trigger_phrase,
      position |-> position, severity |-> severity ]

\* pattern.finditer(text): the passages whose lexeme the pattern matches, in text order
Matches(text, lexemes) == SelectSeq([k \in 1..Len(text) |-> k], LAMBDA k : text[k].lexeme \in lexemes)

RECURSIVE Concatenated(_)
Concatenated(lists) == IF lists = <<>> THEN <<>> ELSE Head(lists) \o Concatenated(Tail(lists))

\* AmbiguityDetector._detect_vague_standards
_detect_vague_standards(text) ==
    Concatenated([ e \in 1..Len(VAGUE_STANDARDS) |->
        LET found == Matches(text, {VAGUE_STANDARDS[e][1]})
        IN  [ m \in 1..Len(found) |->
                AmbiguityInstanceAt(VAGUE_STANDARDS[e][1], "VAGUE_STANDARD", VAGUE_STANDARDS[e][2],
                                    StartOf(text, found[m]), VAGUE_STANDARDS[e][3]) ] ])

\* AmbiguityDetector._detect_pattern_ambiguity
_detect_pattern_ambiguity(text, patterns, ambiguity_type) ==
    Concatenated([ e \in 1..Len(patterns) |->
        LET found == Matches(text, patterns[e][1])
        IN  [ m \in 1..Len(found) |->
                AmbiguityInstanceAt(text[found[m]].lexeme, ambiguity_type, patterns[e][2],
                                    StartOf(text, found[m]), patterns[e][3]) ] ])

\* The quoted terms of the vocabulary: the passage as written, and the term between the quotes
QuotedTerms == [ passage |-> {"\"custody\""}, term |-> [p \in {"\"custody\""} |-> "custody"] ]

skip_phrases == {"and", "or", "the", "a", "an", "means", "shall"}

\* 'means' in text[match.end():match.end() + 20]: a passage "means" after passage k that
\* lies within the 20 characters after it
FollowedByMeans(text, k) ==
    \E j \in (k + 1)..Len(text) :
        /\ text[j].lexeme = "means"
        /\ text[j].words = 1
        /\ StartOf(text, j) + 5 <= StartOf(text, k) + text[k].chars + 20

\* AmbiguityDetector._detect_undefined_terms
_detect_undefined_terms(self, text) ==
    LET found == Matches(text, QuotedTerms.passage)
        Kept(k) == LET term == QuotedTerms.term[text[k].lexeme]
                   IN  /\ term \notin self.defined_terms
                       /\ term \notin skip_phrases
                       /\ ~FollowedByMeans(text, k)
        kept == SelectSeq(found, Kept)
    IN  [ m \in 1..Len(kept) |->
            AmbiguityInstanceAt(QuotedTerms.term[text[kept[m]].lexeme], "UNDEFINED_TERM",
                                "Potentially undefined term", StartOf(text, kept[m]), <<1, 2>>) ]

LegalReviewDisclaimer == "IMPORTANT: This analysis identifies potential ambiguity but does not provide legal advice. Consult qualified legal counsel for interpretation guidance."

CountOfType(instances, ambiguity_type) ==
    Cardinality({k \in 1..Len(instances) : instances[k].ambiguity_type = ambiguity_type})

HighSeverityCount(instances) ==
    Cardinality({k \in 1..Len(instances) : RatGe(instances[k].severity, <<7, 10>>)})

\* by_type.get(ambiguity_type, 0)
CountIn(by_type, ambiguity_type) ==
    IF ambiguity_type \in DOMAIN by_type THEN by_type[ambiguity_type] ELSE 0

\* AmbiguityDetector._generate_recommendations
_generate_ambiguity_recommendations(instances, by_type) ==
    IF instances = <<>>
    THEN <<"No significant ambiguity detected">>
    ELSE <<LegalReviewDisclaimer>>
         \o (IF CountIn(by_type, "VAGUE_STANDARD") > 3
             THEN <<"Multiple vague standards detected.">> ELSE <<>>)
         \o (IF CountIn(by_type, "TIMING_UNCLEAR") > 2
             THEN <<"Timing requirements are ambiguous.">> ELSE <<>>)
         \o (IF CountIn(by_type, "THRESHOLD_UNCLEAR") > 2
             THEN <<"Materiality/threshold definitions are unclear.">> ELSE <<>>)
         \o (IF HighSeverityCount(instances) > 5
             THEN <<"HIGH PRIORITY: high-severity ambiguities detected.">> ELSE <<>>)

\* sorted(instances, key=lambda x: x.position): stable, equal positions keep their order
SortedByPosition(instances) ==
    LET n == Len(instances)
        Before(j, i) == \/ instances[j].position < instances[i].position
                        \/ instances[j].position = instances[i].position /\ j < i
        Rank(i) == Cardinality({j \in 1..n : Before(j, i)}) + 1
    IN  [ r \in 1..n |-> instances[CHOOSE i \in 1..n : Rank(i) = r] ]

\* the list kept as it was merged
FilteredAndSorted_Unsorted(self, found) ==
    SelectSeq(found, LAMBDA i : RatGe(i.severity, self.severity_threshold))

\* instances = [i for i in instances if i.severity >= self.severity_threshold], sorted
FilteredAndSorted(self, found) ==
    SortedByPosition(SelectSeq(found, LAMBDA i : RatGe(i.severity, self.severity_threshold)))

\* the instances of the five passes in the order detect merges them
DetectedInstances(self, text) ==
    _detect_vague_standards(text)
    \o _detect_pattern_ambiguity(text, SCOPE_UNCLEAR_PATTERNS, "SCOPE_UNCLEAR")
    \o _detect_pattern_ambiguity(text, TIMING_UNCLEAR_PATTERNS, "TIMING_UNCLEAR")
    \o _detect_pattern_ambiguity(text, THRESHOLD_UNCLEAR_PATTERNS, "THRESHOLD_UNCLEAR")
    \o _detect_undefined_terms(self, text)

\* the score computed whenever the text has words
AmbiguityScore_AlwaysDivide(instances, word_count) ==
    IF word_count = 0
    THEN [raised |-> "ZeroDivisionError", value |-> Zero]
    ELSE [raised |-> "None", value |-> RatMin(One, Rat(100 * Len(instances), word_count))]

\* ambiguity_score of detect (lines 234-238): the exception raised and the value
AmbiguityScore(instances, word_count) ==
    IF instances # <<>>
    THEN IF word_count = 0
         THEN [raised |-> "ZeroDivisionError", value |-> Zero]
         ELSE [raised |-> "None", value |-> RatMin(One, Rat(100 * Len(instances), word_count))]
    ELSE [raised |-> "None", value |-> Zero]

NoReportYet == [raised |-> "None", called |-> FALSE]

\* AmbiguityDetector.detect: the exception raised and the AmbiguityReport returned
detect(self, text) ==
    LET instances == FilteredAndSorted(self, DetectedInstances(self, text))
        types == {instances[k].ambiguity_type : k \in 1..Len(instances)}
        instances_by_type == [t \in types |-> CountOfType(instances, t)]
        score == AmbiguityScore(instances, WordCount(text))
    IN  IF score.raised # "None"
        THEN [raised |-> score.raised, called |-> TRUE]
        ELSE [ raised |-> "None", called |-> TRUE,
               total_instances |-> Len(instances),
               instances_by_type |-> instances_by_type,
               high_severity_count |-> HighSeverityCount(instances),
               ambiguity_score |-> score.value,
               instances |-> instances,
               recommendations |-> _generate_ambiguity_recommendations(instances, instances_by_type) ]

(***************************************************************************)
(* Callers of AmbiguityDetector.detect (SpecAmbiguity)                     *)
(***************************************************************************)
MaxPassages == 6

\* a passage of plain words long enough to bring the score below 1
PlainPassageWords == 150

Vocabulary ==
    { Word("promptly"), Word("material"), Word("\"custody\""), Passage("such as", 2, 7),
      Word("means"), PlainWords("the", PlainPassageWords) }

\* the passages that, repeated, reach the thresholds of the recommendations
RepeatedPassages == { Word("promptly"), Word("material"), PlainWords("the", PlainPassageWords) }

RECURSIVE TextsOfLength(_, _)
TextsOfLength(n, passages) ==
    IF n = 0 THEN { <<>> }
    ELSE { Append(t, p) : t \in TextsOfLength(n - 1, passages), p \in passages }

\* texts of the whole vocabulary, two passages shorter than the longest texts
ShortTextPassages == MaxPassages - 2

Texts ==
    UNION { TextsOfLength(n, Vocabulary) : n \in 0..ShortTextPassages }
    \cup UNION { TextsOfLength(n, RepeatedPassages) : n \in 0..MaxPassages }

Detectors ==
    { AmbiguityDetector({}, Zero), AmbiguityDetector({"custody"}, Zero),
      AmbiguityDetector({}, <<3, 5>>), AmbiguityDetector({}, <<4, 5>>) }

InitAmbiguity ==
    /\ detector \in Detectors
    /\ document_text \in Texts
    /\ ambiguity_report = NoReportYet
    /\ ComparisonIdle
    /\ RiskIdle
    /\ ExtractionIdle
    /\ DefinitionIdle
    /\ SectionIdle
    /\ CacheIdle

\* detector.detect(document_text)
Detect ==
    /\ ~ambiguity_report.called
    /\ ambiguity_report' = detect(detector, document_text)
    /\ UNCHANGED <<detector, document_text>>
    /\ UNCHANGED <<comparisonVars, riskVars, extractionVars, definitionVars, sectionVars, cacheVars>>

NextAmbiguity == Detect

SpecAmbiguity == InitAmbiguity /\ [][NextAmbiguity]_vars

(***************************************************************************)
(* ClauseExtractor (parsing/clause_extractor.py).                          *)
(* The text handed to extract is the sequence of its tokens, separated by  *)
(* single spaces; a token is a word, possibly with the punctuation that    *)
(* follows it ("broker.", "Inc."), or a quoted term.  The character count  *)
(* of a sentence and its truncation are computed on the characters of the  *)
(* tokens.  A pattern is the set of phrases its alternation lists, and it  *)
(* matches where the words of consecutive tokens are those of a phrase.    *)
(***************************************************************************)
StartsWith(token, prefix) == Len(token) >= Len(prefix) /\ SubSeq(token, 1, Len(prefix)) = prefix

EndsWith(token, suffix) == Len(token) >= Len(suffix) /\ SubSeq(token, Len(token) - Len(suffix) + 1, Len(token)) = suffix

\* the leading word characters of a token: what lies between two \b of a pattern
RECURSIVE Bare(_)
Bare(token) == IF EndsWith(token, ".") THEN Bare(SubSeq(token, 1, Len(token) - 1)) ELSE token

\* [\w-]+ followed by whitespace
WordLike(token) == token # "" /\ ~EndsWith(token, ".") /\ ~StartsWith(token, "\"")

\* "[^"]+" followed by whitespace
Quoted(token) == Len(token) >= 3 /\ StartsWith(token, "\"") /\ EndsWith(token, "\"")

\* len(sentence) of a sentence given by its tokens
RECURSIVE SentenceLength(_)
SentenceLength(sentence) == IF sentence = <<>> THEN 0 ELSE Len(Head(sentence)) + (IF Len(sentence) > 1 THEN 1 ELSE 0) + SentenceLength(Tail(sentence))

\* the wildcard of the "No X shall" pattern
ANYWORD == "[\\w-]+"

OBLIGATION_PATTERNS ==
    << { <<"shall">>, <<"must">>, <<"will">>, <<"is", "required", "to">>,
         <<"are", "required", "to">>, <<"has", "to">>, <<"have", "to">> },
       { <<"is", "obligated">>, <<"are", "obligated">>, <<"is", "obliged">>,
         <<"are", "obliged">> },
       { <<"it", "is", "mandatory">>, <<"mandatory", "requirement">> } >>

PROHIBITION_PATTERNS ==
    << { <<"shall", "not">>, <<"must", "not">>, <<"may", "not">>, <<"cannot">>,
         <<"will", "not">> },
       { <<"is", "prohibited">>, <<"are", "prohibited">>, <<"is", "forbidden">>,
         <<"are", "forbidden">> },
       { <<"is", "not", "permitted">>, <<"are", "not", "permitted">>,
         <<"is", "not", "allowed">>, <<"are", "not", "allowed">> },
       { <<"no", "person", "shall">>, <<"no", "entity", "shall">>, <<"no", "one", "may">> },
       { <<"no", ANYWORD, "shall">>, <<"no", ANYWORD, ANYWORD, "shall">> } >>

PERMISSION_PATTERNS ==
    << { <<"may">>, <<"can">>, <<"is", "permitted", "to">>, <<"are", "permitted", "to">> },
       { <<"is", "allowed", "to">>, <<"are", "allowed", "to">>, <<"is", "authorized">>,
         <<"are", "authorized">> },
       { <<"has", "the", "right", "to">>, <<"have", "the", "right", "to">> } >>

CONDITION_PATTERNS ==
    << { <<"if">>, <<"when">>, <<"where">>, <<"unless">>, <<"provided", "that">>,
         <<"subject", "to">> },
       { <<"in", "the", "event">>, <<"in", "case", "of">>, <<"contingent", "upon">> },
       { <<"except", "when">>, <<"except", "where">>, <<"except", "if">> } >>

EXCEPTION_PATTERNS ==
    << { <<"except">>, <<"excluding">>, <<"other", "than">>, <<"notwithstanding">> },
       { <<"this", "section", "does", "not", "apply">>, <<"this", "rule", "does", "not", "apply">>,
         <<"this", "regulation", "does", "not", "apply">> },
       { <<"exemption">>, <<"exempt", "from">> } >>

\* ClauseExtractor.__init__
ClauseExtractor(min_clause_length, max_clause_length) == [min_clause_length |-> min_clause_length, max_clause_length |-> max_clause_length]

\* one phrase of a pattern found at token k (re.IGNORECASE, \b on both sides,
\* one space between the words of the phrase)
PhraseAt(sentence, k, phrase) ==
    /\ k + Len(phrase) - 1 <= Len(sentence)
    /\ \A j \in DOMAIN phrase :
          /\ j < Len(phrase) => ~EndsWith(sentence[k + j - 1], ".")
          /\ IF phrase[j] = ANYWORD
             THEN WordLike(sentence[k + j - 1])
             ELSE Lower(Bare(sentence[k + j - 1])) = phrase[j]

\* re.search(pattern, sentence, re.IGNORECASE)
PatternFound(pattern, sentence) == \E phrase \in pattern : \E k \in DOMAIN sentence : PhraseAt(sentence, k, phrase)

\* the compiled alternation of a family: self._prohibition_re.search(sentence)
FamilyFound(patterns, sentence) == \E p \in DOMAIN patterns : PatternFound(patterns[p], sentence)

\* ClauseExtractor._is_definition (these four patterns are case-sensitive)
_is_definition(sentence) ==
    \E k \in DOMAIN sentence :
        \/ /\ Quoted(sentence[k])
           /\ k + 1 <= Len(sentence)
           /\ StartsWith(sentence[k + 1], "means")
        \/ /\ Quoted(sentence[k])
           /\ k + 2 <= Len(sentence)
           /\ sentence[k + 1] = "shall"
           /\ StartsWith(sentence[k + 2], "mean")
        \/ /\ sentence[k] \in {"the", "The"}
           /\ k + 2 <= Len(sentence)
           /\ sentence[k + 1] = "term"
           /\ Len(sentence[k + 2]) >= 3
           /\ StartsWith(sentence[k + 2], "\"")
           /\ \E c \in 3..Len(sentence[k + 2]) : SubSeq(sentence[k + 2], c, c) = "\""
        \/ /\ Quoted(sentence[k])
           /\ k + 3 <= Len(sentence)
           /\ sentence[k + 1] = "is"
           /\ sentence[k + 2] = "defined"
           /\ StartsWith(sentence[k + 3], "as")

\* ClauseExtractor._classify_clause
_classify_clause(sentence) ==
    IF FamilyFound(PROHIBITION_PATTERNS, sentence) THEN "prohibition"
    ELSE IF FamilyFound(OBLIGATION_PATTERNS, sentence) THEN "obligation"
    ELSE IF FamilyFound(PERMISSION_PATTERNS, sentence) THEN "permission"
    ELSE IF FamilyFound(EXCEPTION_PATTERNS, sentence) THEN "exception"
    ELSE IF FamilyFound(CONDITION_PATTERNS, sentence) THEN "condition"
    ELSE IF _is_definition(sentence) THEN "definition"
    ELSE "unknown"

\* the pattern lists _calculate_confidence looks the clause type up in
PatternsOfType(clause_type) ==
    CASE clause_type = "obligation"  -> OBLIGATION_PATTERNS
      [] clause_type = "prohibition" -> PROHIBITION_PATTERNS
      [] clause_type = "permission"  -> PERMISSION_PATTERNS
      [] clause_type = "condition"   -> CONDITION_PATTERNS
      [] clause_type = "exception"   -> EXCEPTION_PATTERNS
      [] OTHER                       -> <<>>

\* ClauseExtractor._calculate_confidence
_calculate_confidence(sentence, clause_type) ==
    LET patterns == PatternsOfType(clause_type)
        matches  == Cardinality({p \in DOMAIN patterns : PatternFound(patterns[p], sentence)})
        base     == RatAdd(<<1, 2>>, RatMin(<<2, 5>>, RatMul(<<matches, 1>>, <<3, 20>>)))
        longer   == IF Len(sentence) > 10 THEN RatAdd(base, <<1, 10>>) ELSE base
    IN  RatMin(One, longer)

ABBREVIATIONS == {"Mr", "Mrs", "Dr", "Inc", "Ltd", "etc", "vs", "i.e", "e.g"}

\* a token after which re.split(r'(?<=[.!?])\s+') cuts: it ends in a full stop
\* that the abbreviation substitution has not protected
EndsSentence(token) ==
    /\ EndsWith(token, ".")
    /\ ~(\E a \in ABBREVIATIONS : token = a \o ".")

RECURSIVE SplitFrom(_, _, _)
SplitFrom(text, k, current) ==
    IF k > Len(text) THEN (IF current = <<>> THEN <<>> ELSE <<current>>)
    ELSE IF EndsSentence(text[k]) THEN <<Append(current, text[k])>> \o SplitFrom(text, k + 1, <<>>)
    ELSE SplitFrom(text, k + 1, Append(current, text[k]))

\* ClauseExtractor._split_sentences
_split_sentences(text) == SplitFrom(text, 1, <<>>)

\* sentence[:limit] of a sentence given by its tokens
RECURSIVE Sliced(_, _)
Sliced(sentence, limit) ==
    IF sentence = <<>> \/ limit <= 0 THEN <<>>
    ELSE IF Len(Head(sentence)) >= limit THEN <<SubSeq(Head(sentence), 1, limit)>>
    ELSE IF Len(sentence) = 1 THEN sentence
    ELSE IF Len(Head(sentence)) + 1 = limit THEN <<Head(sentence), "">>
    ELSE <<Head(sentence)>> \o Sliced(Tail(sentence), limit - Len(Head(sentence)) - 1)

\* sentence[:self.max_clause_length] + "..."
Truncated(sentence, limit) ==
    LET kept == Sliced(sentence, limit)
    IN  IF kept = <<>> THEN <<"...">>
        ELSE SubSeq(kept, 1, Len(kept) - 1) \o <<kept[Len(kept)] \o "...">>

\* the sentence extract classifies and stores
StoredSentence(self, sentence) ==
    IF SentenceLength(sentence) > self.max_clause_length
    THEN Truncated(sentence, self.max_clause_length)
    ELSE sentence

\* RegulatoryClause as extract builds it (subject, action, conditions and
\* exceptions, which nothing here reads, are left out)
ExtractedClause(text, clause_type, section_id, confidence, position) ==
    [text |-> text, clause_type |-> clause_type, section_id |-> section_id,
     confidence |-> confidence, position |-> position]

\* the loop of extract from sentence i (0-based, as enumerate counts) onwards
RECURSIVE ClausesFrom(_, _, _, _)
ClausesFrom(self, sentences, i, section_id) ==
    IF i >= Len(sentences) THEN <<>>
    ELSE LET sentence    == sentences[i + 1]
             stored      == StoredSentence(self, sentence)
             clause_type == _classify_clause(stored)
             rest        == ClausesFrom(self, sentences, i + 1, section_id)
         IN  IF SentenceLength(sentence) < self.min_clause_length THEN rest
             ELSE IF clause_type # "unknown"
             THEN <<ExtractedClause(stored, clause_type, section_id,
                                    _calculate_confidence(stored, clause_type), i)>> \o rest
             ELSE rest

\* ClauseExtractor.extract
extract(self, text, section_id) == ClausesFrom(self, _split_sentences(text), 0, section_id)

(***************************************************************************)
(* Callers of ClauseExtractor.extract (SpecExtraction)                     *)
(***************************************************************************)
MaxWords == 5

ClauseVocabulary ==
    { "no", "broker", "shall", "not", "may", "cannot", "except", "if",
      "\"custody\"", "means", "broker.", "Inc." }

\* the tokens of the longer sentences
FrequentTokens == { "no", "broker", "shall", "broker." }

\* texts of the whole vocabulary, two tokens shorter than the longest texts
ShortTextWords == MaxWords - 2

RegulatoryTexts ==
    UNION { TextsOfLength(n, ClauseVocabulary) : n \in 0..ShortTextWords }
    \cup UNION { TextsOfLength(n, FrequentTokens) : n \in 0..MaxWords }

DefaultMinClauseLength == 20
DefaultMaxClauseLength == 1000

\* the default extractor, one that keeps short sentences, one that also
\* truncates after nine characters
Extractors ==
    { ClauseExtractor(DefaultMinClauseLength, DefaultMaxClauseLength),
      ClauseExtractor(5, DefaultMaxClauseLength),
      ClauseExtractor(5, 9) }

NotExtractedYet == [called |-> FALSE, clauses |-> <<>>]

InitExtraction ==
    /\ extractor \in Extractors
    /\ regulatory_text \in RegulatoryTexts
    /\ extracted = NotExtractedYet
    /\ ComparisonIdle
    /\ RiskIdle
    /\ AmbiguityIdle
    /\ DefinitionIdle
    /\ SectionIdle
    /\ CacheIdle

\* extractor.extract(regulatory_text)
Extract ==
    /\ ~extracted.called
    /\ extracted' = [called |-> TRUE, clauses |-> extract(extractor, regulatory_text, "None")]
    /\ UNCHANGED <<extractor, regulatory_text>>
    /\ UNCHANGED <<comparisonVars, riskVars, ambiguityVars, definitionVars, sectionVars, cacheVars>>

NextExtraction == Extract

SpecExtraction == InitExtraction /\ [][NextExtraction]_vars

(***************************************************************************)
(* DefinitionExtractor (parsing/definitions.py).                           *)
(* The text handed to extract is a sequence of statements separated by a   *)
(* space, each ending in a full stop: an introduction ("", "The term "),   *)
(* the quoted term, the defining verb and the defining text.  A pattern    *)
(* names the introduction and the verb it needs; a pattern without an      *)
(* introduction starts matching at the opening quote of the term.  With    *)
(* the verb "-" the term stands in parentheses instead of quotes.          *)
(***************************************************************************)
Statement(introduction, term, verb, body) == [introduction |-> introduction, term |-> term, verb |-> verb, body |-> body]

\* a sentence that defines nothing
PlainStatement(words) == [introduction |-> words, term |-> "", verb |-> "", body |-> ""]

\* len() of the statement as written: introduction "term" verb body.
StatementLength(statement) ==
    IF statement.verb = "" THEN Len(statement.introduction) + 1
    ELSE Len(statement.introduction) + Len(statement.term) + Len(statement.verb) + Len(statement.body) + 5

\* character offset of statement k in the text
RECURSIVE StatementStart(_, _)
StatementStart(text, k) == IF k = 1 THEN 0 ELSE StatementStart(text, k - 1) + StatementLength(text[k - 1]) + 1

\* DEFINITION_PATTERNS with the confidence of each, in the order of the list
DEFINITION_PATTERNS ==
    << [introduction |-> "", verb |-> "means", confidence |-> <<19, 20>>],
       [introduction |-> "", verb |-> "shall mean", confidence |-> <<19, 20>>],
       [introduction |-> "", verb |-> "is defined as", confidence |-> <<9, 10>>],
       [introduction |-> "", verb |-> "refers to", confidence |-> <<17, 20>>],
       [introduction |-> "The term ", verb |-> "means", confidence |-> <<19, 20>>],
       [introduction |-> "For purposes of this section, ", verb |-> "means", confidence |-> <<9, 10>>],
       [introduction |-> "", verb |-> "has the meaning given in", confidence |-> <<4, 5>>],
       [introduction |-> "As used in this section, ", verb |-> "means", confidence |-> <<9, 10>>],
       [introduction |-> "", verb |-> "-", confidence |-> <<7, 10>>] >>

\* DefinitionExtractor.__init__
DefinitionExtractor(min_definition_length, max_definition_length) == [min_definition_length |-> min_definition_length, max_definition_length |-> max_definition_length]

Digits == {"0", "1", "2", "3", "4", "5", "6", "7", "8", "9"}

\* DefinitionExtractor._is_valid_definition
_is_valid_definition(self, term, definition_text) ==
    /\ ~(Len(term) < 2 \/ Len(term) > 100)
    /\ ~(Len(definition_text) < self.min_definition_length)
    /\ ~(Len(definition_text) > self.max_definition_length)
    /\ ~(2 * Cardinality({c \in 1..Len(term) : SubSeq(term, c, c) \in Digits}) > Len(term))

\* does the pattern match in the statement, and where does its match start
PatternMatchesStatement(pattern, statement) ==
    /\ statement.verb # ""
    /\ statement.verb = pattern.verb
    /\ pattern.introduction \in {"", statement.introduction}

MatchOffset(pattern, statement) == IF pattern.introduction = "" THEN Len(statement.introduction) ELSE 0

\* one match of pattern.finditer(text): group(1), group(2), match.start()
DefinitionMatch(text, k, p) ==
    [term |-> text[k].term, definition_text |-> text[k].body,
     position |-> StatementStart(text, k) + MatchOffset(DEFINITION_PATTERNS[p], text[k]),
     confidence |-> DEFINITION_PATTERNS[p].confidence]

\* Definition as extract builds it (source_document, jurisdiction and
\* cross_references, which nothing here reads, are left out)
ExtractedDefinition(term, definition_text, position, confidence) ==
    [term |-> term, definition_text |-> definition_text, position |-> position, confidence |-> confidence]

\* the two loops of extract: patterns in the order of the list, and for each
\* pattern its matches from the start of the text; the scan goes on from
\* statement k for pattern p
RECURSIVE ScanDefinitions(_, _, _, _, _, _)
ScanDefinitions(self, text, p, k, definitions, seen_terms) ==
    IF p > Len(DEFINITION_PATTERNS) THEN definitions
    ELSE IF k > Len(text) THEN ScanDefinitions(self, text, p + 1, 1, definitions, seen_terms)
    ELSE IF ~PatternMatchesStatement(DEFINITION_PATTERNS[p], text[k])
         THEN ScanDefinitions(self, text, p, k + 1, definitions, seen_terms)
    ELSE LET match == DefinitionMatch(text, k, p)
             term_lower == Lower(match.term)
         IN  IF term_lower \in seen_terms
             THEN ScanDefinitions(self, text, p, k + 1, definitions, seen_terms)
             ELSE IF ~_is_valid_definition(self, match.term, match.definition_text)
             THEN ScanDefinitions(self, text, p, k + 1, definitions, seen_terms)
             ELSE ScanDefinitions(self, text, p, k + 1,
                      Append(definitions, ExtractedDefinition(match.term, match.definition_text,
                                                              match.position, match.confidence)),
                      seen_terms \cup {term_lower})

\* DefinitionExtractor.extract
extract_definitions(self, text) == SortedByPosition(ScanDefinitions(self, text, 1, 1, <<>>, {}))

(***************************************************************************)
(* Callers of DefinitionExtractor.extract (SpecDefinitions)                *)
(***************************************************************************)
MaxStatements == 3

DefaultMinDefinitionLength == 10
DefaultMaxDefinitionLength == 2000

Statements ==
    { Statement("", "custody", "means", "holding client assets"),
      Statement("", "Custody", "refers to", "holding client assets"),
      Statement("The term ", "custody", "means", "holding client assets"),
      Statement("", "custody", "refers to", "assets"),
      Statement("", "x", "means", "holding client assets"),
      Statement("", "42", "refers to", "holding client assets"),
      Statement("", "margin", "is defined as", "holding client assets"),
      Statement("", "custody", "-", "holding client assets"),
      PlainStatement("Firms report daily") }

GlossaryTexts == UNION { TextsOfLength(n, Statements) : n \in 0..MaxStatements }

\* the default extractor and one that accepts short defining texts only
DefinitionExtractors ==
    { DefinitionExtractor(DefaultMinDefinitionLength, DefaultMaxDefinitionLength),
      DefinitionExtractor(5, 20) }

NoDefinitionsYet == [called |-> FALSE, definitions |-> <<>>]

InitDefinitions ==
    /\ definition_extractor \in DefinitionExtractors
    /\ glossary_text \in GlossaryTexts
    /\ extracted_definitions = NoDefinitionsYet
    /\ ComparisonIdle
    /\ RiskIdle
    /\ AmbiguityIdle
    /\ ExtractionIdle
    /\ SectionIdle
    /\ CacheIdle

\* definition_extractor.extract(glossary_text)
ExtractDefinitions ==
    /\ ~extracted_definitions.called
    /\ extracted_definitions' = [called |-> TRUE, definitions |-> extract_definitions(definition_extractor, glossary_text)]
    /\ UNCHANGED <<definition_extractor, glossary_text>>
    /\ UNCHANGED <<comparisonVars, riskVars, ambiguityVars, extractionVars, sectionVars, cacheVars>>

NextDefinitions == ExtractDefinitions

SpecDefinitions == InitDefinitions /\ [][NextDefinitions]_vars

(***************************************************************************)
(* TextNormalizer._extract_sections and _deduplicate_sections              *)
(* (ingestion/normalizer.py).  The normalized text is the sequence of its  *)
(* lines, joined by "\n".  A header pattern matches at the start of a line *)
(* that begins with one of its keywords followed by a dotted number.       *)
(***************************************************************************)
\* the keywords of SECTION_PATTERNS, in the order of the list; the last pattern
\* has no keyword and needs "." or ":" after the number (the section sign of the
\* first pattern is left out: no line of the texts starts with it)
SECTION_PATTERNS ==
    << [keywords |-> {"Section", "SECTION"}, closing |-> FALSE],
       [keywords |-> {"Article", "ARTICLE"}, closing |-> FALSE],
       [keywords |-> {"Rule", "RULE"}, closing |-> FALSE],
       [keywords |-> {"Part", "PART"}, closing |-> FALSE],
       [keywords |-> {""}, closing |-> TRUE] >>

CharAt(s, c) == IF c \in 1..Len(s) THEN SubSeq(s, c, c) ELSE ""

\* \d+(?:\.\d+)* matches the whole of s
IsDottedNumber(s) ==
    /\ Len(s) >= 1
    /\ \A c \in 1..Len(s) : CharAt(s, c) \in Digits \cup {"."}
    /\ CharAt(s, 1) \in Digits
    /\ CharAt(s, Len(s)) \in Digits
    /\ \A c \in 1..(Len(s) - 1) : ~(CharAt(s, c) = "." /\ CharAt(s, c + 1) = ".")

\* \s* from character c on: the first character that is not a space
RECURSIVE SkipSpaces(_, _)
SkipSpaces(s, c) == IF CharAt(s, c) = " " THEN SkipSpaces(s, c + 1) ELSE c

\* the ends e for which the number s[from..e] lets the rest of the pattern match
NumberEnds(pattern, line, from) ==
    { e \in from..Len(line) :
        /\ IsDottedNumber(SubSeq(line, from, e))
        /\ pattern.closing => CharAt(line, SkipSpaces(line, e + 1)) \in {".", ":"} }

\* group(1) of the pattern matched at the start of the line, "" if it does not
\* match: the quantifiers are greedy, so the longest number is taken
HeaderId(pattern, line) ==
    LET starts == { SkipSpaces(line, Len(kw) + 1) : kw \in { w \in pattern.keywords : StartsWith(line, w) } }
        found  == { <<from, e>> \in starts \X (1..Len(line)) : e \in NumberEnds(pattern, line, from) }
    IN  IF found = {} THEN ""
        ELSE LET longest == CHOOSE m \in found : \A o \in found : o[2] <= m[2]
             IN  SubSeq(line, longest[1], longest[2])

\* len(text)
RECURSIVE TextLength(_)
TextLength(text) == IF text = <<>> THEN 0 ELSE Len(Head(text)) + (IF Len(text) > 1 THEN 1 ELSE 0) + TextLength(Tail(text))

\* match.start() of a header on line k: the "\n" before the line, 0 on the first line
HeaderStart(text, k) == IF k = 1 THEN 0 ELSE TextLength(SubSeq(text, 1, k - 1))

\* the lines on which the pattern matches: list(re.finditer(pattern, text, re.MULTILINE))
HeaderLines(text, pattern) == SelectSeq([k \in 1..Len(text) |-> k], LAMBDA k : HeaderId(pattern, text[k]) # "")

\* the section dicts of one pattern (content and full_content, which
\* _deduplicate_sections does not read, are left out)
SectionsOfPattern(text, pattern) ==
    LET matches == HeaderLines(text, pattern)
    IN  [ i \in 1..Len(matches) |->
            [id    |-> HeaderId(pattern, text[matches[i]]),
             start |-> HeaderStart(text, matches[i]),
             end   |-> IF i + 1 <= Len(matches) THEN HeaderStart(text, matches[i + 1])
                       ELSE TextLength(text)] ]

\* sorted(sections, key=lambda x: x['start']): stable
SortedByStart(list) ==
    LET n == Len(list)
        Before(j, i) == \/ list[j].start < list[i].start
                        \/ list[j].start = list[i].start /\ j < i
        Rank(i) == Cardinality({j \in 1..n : Before(j, i)}) + 1
    IN  [ r \in 1..n |-> list[CHOOSE i \in 1..n : Rank(i) = r] ]

\* _extract_sections up to the call of _deduplicate_sections
ExtractedSections(text) ==
    SortedByStart(Concatenated([ p \in 1..Len(SECTION_PATTERNS) |-> SectionsOfPattern(text, SECTION_PATTERNS[p]) ]))

\* the loop body with every section kept
DeduplicateStep_KeepAll(kept, section) == Append(kept, section)

\* the body of the loop of _deduplicate_sections
DeduplicateStep(kept, section) ==
    LET last == kept[Len(kept)]
    IN  IF section.start >= last.end THEN Append(kept, section)
        ELSE IF Len(section.id) > Len(last.id) THEN [kept EXCEPT ![Len(kept)] = section]
        ELSE kept

(***************************************************************************)
(* Callers of TextNormalizer._extract_sections (SpecSections)              *)
(***************************************************************************)
MaxLines == 4

Lines ==
    { "Section 1", "Section 1.2", "Article 2.1", "Rule 7", "PART 10",
      "1.2.3. Scope", "Firms report daily" }

NormalizedTexts == UNION { TextsOfLength(n, Lines) : n \in 0..MaxLines }

InitSections ==
    /\ normalized_text \in NormalizedTexts
    /\ sections = <<>>
    /\ deduplicated = <<>>
    /\ section_pos = 0
    /\ section_pc = "extract"
    /\ ComparisonIdle
    /\ RiskIdle
    /\ AmbiguityIdle
    /\ ExtractionIdle
    /\ DefinitionIdle
    /\ CacheIdle

\* _extract_sections: the sections of every pattern, sorted, handed to
\* _deduplicate_sections, which returns [] for no section and else starts
\* from the first one
ExtractSections ==
    /\ section_pc = "extract"
    /\ sections' = ExtractedSections(normalized_text)
    /\ IF sections' = <<>>
       THEN /\ deduplicated' = <<>>
            /\ section_pos' = 0
            /\ section_pc' = "done"
       ELSE /\ deduplicated' = <<sections'[1]>>
            /\ section_pos' = 2
            /\ section_pc' = "deduplicate"
    /\ UNCHANGED normalized_text
    /\ UNCHANGED <<comparisonVars, riskVars, ambiguityVars, extractionVars, definitionVars, cacheVars>>

\* one iteration of `for section in sections[1:]`
DeduplicateSection ==
    /\ section_pc = "deduplicate"
    /\ section_pos <= Len(sections)
    /\ deduplicated' = DeduplicateStep(deduplicated, sections[section_pos])
    /\ section_pos' = section_pos + 1
    /\ UNCHANGED <<normalized_text, sections, section_pc>>
    /\ UNCHANGED <<comparisonVars, riskVars, ambiguityVars, extractionVars, definitionVars, cacheVars>>

\* return deduplicated
ReturnDeduplicated ==
    /\ section_pc = "deduplicate"
    /\ section_pos > Len(sections)
    /\ section_pc' = "done"
    /\ UNCHANGED <<normalized_text, sections, deduplicated, section_pos>>
    /\ UNCHANGED <<comparisonVars, riskVars, ambiguityVars, extractionVars, definitionVars, cacheVars>>

NextSections == ExtractSections \/ DeduplicateSection \/ ReturnDeduplicated

SpecSections == InitSections /\ [][NextSections]_vars

(***************************************************************************)
(* The embedding cache of SemanticDiff (comparison/semantic_diff.py):      *)
(* compare_clauses as one call on an instance that keeps its               *)
(* _embeddings_cache from call to call.  The progress of a call is the     *)
(* record [cache, calls, similarities]: the cache, the texts handed to the *)
(* embedding model so far, and the similarities computed so far.           *)
(***************************************************************************)
\* _get_embedding that asks the model every time
_get_embedding_AlwaysEncode(cache, calls, text) ==
    LET stored == (text :> EmbeddingVector(embedding_model, text)) @@ cache
    IN  [cache |-> stored, calls |-> Append(calls, text), embedding |-> stored[text]]

\* SemanticDiff._get_embedding
_get_embedding(cache, calls, text) ==
    IF text \notin DOMAIN cache
    THEN LET stored == (text :> EmbeddingVector(embedding_model, text)) @@ cache
         IN  [cache |-> stored, calls |-> Append(calls, text), embedding |-> stored[text]]
    ELSE [cache |-> cache, calls |-> calls, embedding |-> cache[text]]

\* the cosine of _embedding_similarity, 0.0 when a norm is zero
CosineSimilarity(emb_a, emb_b) ==
    LET norm_a == Norm(emb_a)
        norm_b == Norm(emb_b)
    IN  IF norm_a = 0 \/ norm_b = 0
        THEN Zero
        ELSE Rat(Dot(emb_a, emb_b), norm_a * norm_b)

\* _calculate_similarity on an instance with its cache: _embedding_similarity
\* takes both embeddings through _get_embedding, text_a first
CachedSimilarity(progress, text_a, text_b) ==
    IF embedding_model # "None"
    THEN LET a == _get_embedding(progress.cache, progress.calls, text_a)
             b == _get_embedding(a.cache, a.calls, text_b)
             similarity == CosineSimilarity(a.embedding, b.embedding)
         IN  [progress |-> [cache |-> b.cache, calls |-> b.calls,
                            similarities |-> Append(progress.similarities,
                                                    <<text_a, text_b, similarity>>)],
              similarity |-> similarity]
    ELSE LET similarity == _keyword_similarity(text_a, text_b)
         IN  [progress |-> [progress EXCEPT !.similarities = Append(@, <<text_a, text_b, similarity>>)],
              similarity |-> similarity]

\* lines 131-136: the best match so far after candidate i has been compared;
\* best is the record [progress, idx, similarity], r the result of CachedSimilarity
BetterMatch(best, i, r) ==
    IF RatGt(r.similarity, best.similarity) /\ RatGe(r.similarity, similarity_threshold)
    THEN [progress |-> r.progress, idx |-> i, similarity |-> r.similarity]
    ELSE [progress |-> r.progress, idx |-> best.idx, similarity |-> best.similarity]

\* the inner loop over clauses_b (lines 127-136) with the cache, from candidate i on
RECURSIVE CachedScan(_, _, _, _, _)
CachedScan(best, clause_a, cls_b, matched, i) ==
    IF i > Len(cls_b)
    THEN best
    ELSE IF i \in matched
    THEN CachedScan(best, clause_a, cls_b, matched, i + 1)
    ELSE CachedScan(BetterMatch(best, i, CachedSimilarity(best.progress, clause_a.text, cls_b[i].text)),
                    clause_a, cls_b, matched, i + 1)

\* lines 138-152: the difference appended for clause_a once the scan has returned best;
\* done is the record [progress, matched, diffs] of the loop over clauses_a
MatchedDifference(done, best, clause_a, cls_b, jurisdiction_a, jurisdiction_b) ==
    IF best.idx # 0
    THEN [progress |-> best.progress, matched |-> done.matched \cup {best.idx},
          diffs |-> Append(done.diffs, _analyze_difference(clause_a, cls_b[best.idx], best.similarity))]
    ELSE [progress |-> best.progress, matched |-> done.matched,
          diffs |-> Append(done.diffs, NovelDifference(clause_a, jurisdiction_a, jurisdiction_b))]

\* one pass of the loop over clauses_a (lines 124-152) with the cache
CachedMatchClause(done, clause_a, cls_b, jurisdiction_a, jurisdiction_b) ==
    MatchedDifference(done,
                      CachedScan([progress |-> done.progress, idx |-> 0, similarity |-> Zero],
                                 clause_a, cls_b, done.matched, 1),
                      clause_a, cls_b, jurisdiction_a, jurisdiction_b)

\* the loop over clauses_a (lines 123-152) with the cache, from clause k on
RECURSIVE CachedLoopOverA(_, _, _, _, _, _)
CachedLoopOverA(done, cls_a, cls_b, k, jurisdiction_a, jurisdiction_b) ==
    IF k > Len(cls_a)
    THEN done
    ELSE CachedLoopOverA(CachedMatchClause(done, cls_a[k], cls_b, jurisdiction_a, jurisdiction_b),
                         cls_a, cls_b, k + 1, jurisdiction_a, jurisdiction_b)

\* lines 154-168: the loop over clauses_b after the loop over clauses_a has ended in done
CachedReturn(done, cls_b, jurisdiction_a, jurisdiction_b) ==
    [cache |-> done.progress.cache, calls |-> done.progress.calls,
     similarities |-> done.progress.similarities,
     differences |-> LoopOverB(done.diffs, cls_b, done.matched, 1, jurisdiction_a, jurisdiction_b)]

\* SemanticDiff.compare_clauses on the instance whose cache and model calls are given
compare_clauses_cached(cache, calls, cls_a, cls_b, jurisdiction_a, jurisdiction_b) ==
    CachedReturn(CachedLoopOverA([progress |-> [cache |-> cache, calls |-> calls, similarities |-> <<>>],
                                  matched |-> {}, diffs |-> <<>>],
                                 cls_a, cls_b, 1, jurisdiction_a, jurisdiction_b),
                 cls_b, jurisdiction_a, jurisdiction_b)

(***************************************************************************)
(* Callers of compare_clauses on one caching instance (SpecCache)          *)
(***************************************************************************)
CachedThresholds == { <<1, 2>>, DefaultThreshold }

\* the clause lists of the calls: no clause, one clause, and two clauses in both orders
CachedClauseLists ==
    SeqsUpTo(ClauseUniverse, 1)
    \cup { <<RegulatoryClause(<<"Firms", "shall", "report", "daily">>, "obligation"),
             RegulatoryClause(<<"firms", "MAY", "report", "daily">>, "permission")>>,
           <<RegulatoryClause(<<"firms", "MAY", "report", "daily">>, "permission"),
             RegulatoryClause(<<"Firms", "shall", "report", "daily">>, "obligation")>> }

NoCachedCall == [count |-> 0, clauses_a |-> <<>>, clauses_b |-> <<>>, similarities |-> <<>>, differences |-> <<>>]

InitCache ==
    /\ similarity_threshold \in CachedThresholds
    /\ embedding_model \in EmbeddingModels
    /\ _embeddings_cache = <<>>
    /\ encode_calls = <<>>
    /\ cache_call = NoCachedCall
    /\ clauses_a = <<>>
    /\ clauses_b = <<>>
    /\ differences = <<>>
    /\ matched_b = {}
    /\ best_match_idx = <<>>
    /\ pos = 0
    /\ pc = "idle"
    /\ profile_a = NoClause
    /\ profile_b = NoClause
    /\ clause_diffs = <<>>
    /\ gaps = <<>>
    /\ profiles = <<>>
    /\ matrix = <<>>
    /\ compare_calls = <<>>
    /\ mi = 0
    /\ mj = 0
    /\ ProfileIdle
    /\ RiskIdle
    /\ AmbiguityIdle
    /\ ExtractionIdle
    /\ DefinitionIdle
    /\ SectionIdle

\* one call of compare_clauses on the instance, with the default labels
CompareClausesCached ==
    /\ cache_call.count < MaxCalls
    /\ \E cls_a \in CachedClauseLists, cls_b \in CachedClauseLists :
          \E r \in {compare_clauses_cached(_embeddings_cache, encode_calls, cls_a, cls_b,
                                          DefaultJurisdictionA, DefaultJurisdictionB)} :
              /\ _embeddings_cache' = r.cache
              /\ encode_calls' = r.calls
              /\ cache_call' = [count |-> cache_call.count + 1, clauses_a |-> cls_a,
                                clauses_b |-> cls_b, similarities |-> r.similarities,
                                differences |-> r.differences]
    /\ UNCHANGED <<comparisonVars, riskVars, ambiguityVars, extractionVars, definitionVars, sectionVars>>

NextCache == CompareClausesCached

SpecCache == InitCache /\ [][NextCache]_vars

(***************************************************************************)
(* Properties of compare_clauses (checked under SpecDiff)                  *)
(***************************************************************************)
Range(seq) == {seq[k] : k \in DOMAIN seq}

Similarity(clause_a, clause_b) == _calculate_similarity(clause_a.text, clause_b.text)

\* The B indices taken by the A-clauses processed before the k-th
TakenBefore(k) == {best_match_idx[m] : m \in 1..(k - 1)} \ {0}

\* The B indices at or above the threshold for the k-th A-clause
AtOrAboveThreshold(k) ==
    {i \in DOMAIN clauses_b : RatGe(Similarity(clauses_a[k], clauses_b[i]), similarity_threshold)}

\* The k-th difference pairs clauses_a[k] with the B-clause chosen in its iteration
PairsAsChosen(k) ==
    /\ differences[k].clause_a = clauses_a[k]
    /\ IF best_match_idx[k] = 0
       THEN differences[k].clause_b = NoClause /\ differences[k].difference_type = "novel"
       ELSE /\ differences[k].clause_b = clauses_b[best_match_idx[k]]
            /\ differences[k].difference_type # "novel"

C1_State ==
    /\ DOMAIN best_match_idx \subseteq DOMAIN differences
    /\ \A k \in DOMAIN best_match_idx : PairsAsChosen(k)
    \* one-to-one: no B index is chosen by two A-clauses
    /\ \A i, j \in DOMAIN best_match_idx :
          (i < j /\ best_match_idx[i] # 0) => best_match_idx[i] # best_match_idx[j]
    \* a match is only made at or above the threshold
    /\ \A k \in DOMAIN best_match_idx :
          best_match_idx[k] # 0 => best_match_idx[k] \in AtOrAboveThreshold(k)
    \* [A1, A2] both at or above the threshold only against B1, A1 similar to B1:
    \* A1 takes B1 and A2 is NOVEL
    /\ ( /\ pc = "done"
         /\ Len(clauses_a) = 2
         /\ AtOrAboveThreshold(1) = {1}
         /\ AtOrAboveThreshold(2) = {1}
         /\ RatGt(Similarity(clauses_a[1], clauses_b[1]), Zero) )
       => /\ best_match_idx = <<1, 0>>
          /\ differences[1].clause_b = clauses_b[1]
          /\ differences[2].difference_type = "novel"
          /\ differences[2].clause_b = NoClause

\* no step changes a difference already in the list, or a choice already made
C1_NoRevision ==
    /\ Len(differences') >= Len(differences)
    /\ \A k \in DOMAIN differences : differences'[k] = differences[k]
    /\ Len(best_match_idx') >= Len(best_match_idx)
    /\ \A k \in DOMAIN best_match_idx : best_match_idx'[k] = best_match_idx[k]
    /\ matched_b \subseteq matched_b'

Candidates(k) == AtOrAboveThreshold(k) \ TakenBefore(k)

\* C2: when the k-th A-clause is processed, it is matched to a not-yet-matched B-clause of
\* maximum similarity among those at or above the threshold if there is one, and is NOVEL
\* only when there is none - for every threshold and similarity function.
C2_MaxAtOrAboveThreshold ==
    \A k \in DOMAIN best_match_idx :
        IF Candidates(k) # {}
        THEN /\ best_match_idx[k] \in Candidates(k)
             /\ \A i \in Candidates(k) :
                   RatGe(Similarity(clauses_a[k], clauses_b[best_match_idx[k]]),
                         Similarity(clauses_a[k], clauses_b[i]))
        ELSE best_match_idx[k] = 0

\* The B indices never chosen, in the order of clauses_b
RECURSIVE UnmatchedIndices(_)
UnmatchedIndices(i) ==
    IF i > Len(clauses_b) THEN <<>>
    ELSE IF i \in TakenBefore(Len(best_match_idx) + 1)
         THEN UnmatchedIndices(i + 1)
         ELSE <<i>> \o UnmatchedIndices(i + 1)

\* C3: the returned list is one difference per clause of clauses_a in order, then one NOVEL
\* difference per never-matched clause of clauses_b in order; its length is
\* |A| + |B| - matched pairs and every input clause is in exactly one difference.
C3_ResultShape ==
    pc = "done" =>
        LET nMatched == Cardinality({k \in DOMAIN best_match_idx : best_match_idx[k] # 0})
            rest == UnmatchedIndices(1)
        IN  /\ Len(best_match_idx) = Len(clauses_a)
            /\ Len(differences) = Len(clauses_a) + Len(clauses_b) - nMatched
            /\ \A k \in 1..Len(clauses_a) : PairsAsChosen(k)
            /\ Len(rest) = Len(clauses_b) - nMatched
            /\ \A m \in 1..Len(rest) :
                  /\ differences[Len(clauses_a) + m].clause_a = clauses_b[rest[m]]
                  /\ differences[Len(clauses_a) + m].clause_b = NoClause
                  /\ differences[Len(clauses_a) + m].difference_type = "novel"
            \* every B index is either chosen by exactly one A-clause or listed once in rest
            /\ \A i \in DOMAIN clauses_b :
                  Cardinality({k \in DOMAIN best_match_idx : best_match_idx[k] = i})
                  + Cardinality({m \in DOMAIN rest : rest[m] = i}) = 1

C3_Witness ==
    /\ pc = "done"
    /\ Len(clauses_a) = 2
    /\ Len(clauses_b) = 2
    /\ Len(differences) = 3
    /\ best_match_idx = <<0, 2>>

C5_Rule(a, b, s) ==
    LET sa == IndicatorCounts[a].stricter
        sb == IndicatorCounts[b].stricter
        la == IndicatorCounts[a].looser
        lb == IndicatorCounts[b].looser
        ma == IndicatorCounts[a].ambiguous
        mb == IndicatorCounts[b].ambiguous
    IN  CASE RatGt(s, <<95, 100>>)        -> <<"equivalent", <<9, 10>>>>
          [] RatLe(s, <<95, 100>>) /\ (sa > sb + 1 \/ lb > la + 1)
                                          -> <<"stricter", <<7, 10>>>>
          [] RatLe(s, <<95, 100>>) /\ ~(sa > sb + 1 \/ lb > la + 1)
             /\ (sb > sa + 1 \/ la > lb + 1)
                                          -> <<"looser", <<7, 10>>>>
          [] RatLe(s, <<95, 100>>) /\ ~(sa > sb + 1 \/ lb > la + 1)
             /\ ~(sb > sa + 1 \/ la > lb + 1) /\ (ma > 2 \/ mb > 2)
                                          -> <<"ambiguous", <<5, 10>>>>
          [] RatLe(s, <<95, 100>>) /\ ~(sa > sb + 1 \/ lb > la + 1)
             /\ ~(sb > sa + 1 \/ la > lb + 1) /\ ~(ma > 2 \/ mb > 2)
             /\ a.clause_type # b.clause_type
                                          -> <<"conflicting", <<8, 10>>>>
          [] OTHER                        -> <<"ambiguous", <<4, 10>>>>

RatEq(x, y) == x[1] * y[2] = y[1] * x[2]

\* C5: every matched pair gets the type and confidence of the first applicable rule
\* (EQUIVALENT 0.9, STRICTER 0.7, LOOSER 0.7, AMBIGUOUS 0.5, CONFLICTING 0.8, else
\* AMBIGUOUS 0.4), and never NOVEL or an unknown type.
C5_FirstApplicableRule ==
    \A k \in DOMAIN best_match_idx :
        best_match_idx[k] # 0 =>
            LET d == differences[k]
                r == C5_Rule(clauses_a[k], clauses_b[best_match_idx[k]], d.similarity_score)
            IN  /\ d.similarity_score =
                       Similarity(clauses_a[k], clauses_b[best_match_idx[k]])
                /\ d.difference_type = r[1]
                /\ RatEq(d.confidence, r[2])
                /\ d.difference_type \in
                       {"equivalent", "stricter", "looser", "ambiguous", "conflicting"}

C5_Witness ==
    /\ pc = "done"
    /\ \E k \in DOMAIN best_match_idx :
          /\ best_match_idx[k] # 0
          /\ differences[k].difference_type = "conflicting"
    /\ \E k \in DOMAIN best_match_idx :
          /\ best_match_idx[k] # 0
          /\ differences[k].difference_type = "ambiguous"
          /\ RatEq(differences[k].confidence, <<4, 10>>)

\* C6: a matched difference requires legal review exactly when it is AMBIGUOUS or
\* CONFLICTING, or its confidence is below 0.6, or a risk factor was recorded; every NOVEL
\* difference requires legal review.
C6_RequiresLegalReview ==
    \A k \in DOMAIN differences :
        LET d == differences[k]
        IN  IF d.difference_type = "novel"
            THEN d.requires_legal_review = TRUE
            ELSE d.requires_legal_review =
                    ( \/ d.difference_type \in {"ambiguous", "conflicting"}
                      \/ RatLt(d.confidence, <<6, 10>>)
                      \/ d.risk_factors # <<>> )

C6_Witness ==
    /\ pc = "done"
    /\ \E k \in DOMAIN differences :
          /\ differences[k].difference_type = "equivalent"
          /\ ~differences[k].requires_legal_review
    /\ \E k \in DOMAIN differences :
          /\ differences[k].difference_type = "stricter"
          /\ differences[k].requires_legal_review

(***************************************************************************)
(* Properties of compare (checked under SpecCompare)                       *)
(***************************************************************************)
\* C7: every gap returned by compare - clause-derived, definitional-conflict and
\* regulatory-burden alike - has requires_legal_review = true.
C7_AllGapsRequireReview ==
    pc = "done" => \A k \in DOMAIN gaps : gaps[k].requires_legal_review = TRUE

C7_Witness ==
    /\ pc = "done"
    /\ \E k \in DOMAIN clause_diffs : clause_diffs[k].difference_type = "equivalent"
    /\ \E k \in DOMAIN gaps : gaps[k].gap_type = "stricter_in_a"
    /\ \E k \in DOMAIN gaps : gaps[k].gap_type = "definitional_conflict"
    /\ \E k \in DOMAIN gaps :
          gaps[k].gap_type = "scope_difference" /\ gaps[k].clause_a = NoClause

IsNotEquivalent(diff) == diff.difference_type # "equivalent"

\* A clause-derived gap is the only kind that carries a clause
IsClauseGap(gap) == gap.clause_a # NoClause

\* The fixed map of C9
C9_Map ==
    [ stricter |-> "stricter_in_a", looser |-> "stricter_in_b", ambiguous |-> "ambiguity",
      conflicting |-> "scope_difference", novel |-> "coverage_gap" ]

\* C9: compare turns every non-EQUIVALENT difference into exactly one gap of the mapped
\* type, in the order of the differences, and makes no gap for an EQUIVALENT one.
C9_OneGapPerDifference ==
    pc = "done" =>
        LET ne == SelectSeq(clause_diffs, IsNotEquivalent)
            cg == SelectSeq(gaps, IsClauseGap)
        IN  /\ Len(cg) = Len(ne)
            /\ \A k \in DOMAIN cg :
                  /\ gaps[k] = cg[k]
                  /\ ne[k].difference_type \in DOMAIN C9_Map
                  /\ cg[k].gap_type = C9_Map[ne[k].difference_type]
                  /\ cg[k].clause_a = ne[k].clause_a
                  /\ cg[k].clause_b = ne[k].clause_b
                  /\ cg[k].description = ne[k].analysis

C9_Witness ==
    /\ pc = "done"
    /\ Len(clause_diffs) = 2
    /\ clause_diffs[1].difference_type = "looser"
    /\ clause_diffs[2].difference_type = "equivalent"
    /\ Len(SelectSeq(gaps, IsClauseGap)) = 1
    /\ gaps[1].gap_type = "stricter_in_b"

\* The severity of C10 in thousandths, before clamping
C10_Thousandths(diff) ==
    500
    + (IF diff.clause_a.clause_type = "prohibition" THEN 200
       ELSE IF diff.clause_a.clause_type = "obligation" THEN 150 ELSE 0)
    + (IF diff.difference_type \in {"ambiguous", "conflicting"} THEN 200 ELSE 0)

\* C10: the severity of a clause-derived gap is 0.5, plus 0.2 for a PROHIBITION clause_a or
\* 0.15 for an OBLIGATION, plus 0.2 for an AMBIGUOUS or CONFLICTING difference, plus
\* (1 - confidence) * 0.1, and lies in [0, 1].
C10_SeverityFormula ==
    pc = "done" =>
        LET ne == SelectSeq(clause_diffs, IsNotEquivalent)
            cg == SelectSeq(gaps, IsClauseGap)
        IN  \A k \in DOMAIN cg :
                /\ k \in DOMAIN ne
                /\ RatEq(cg[k].severity,
                         RatAdd(<<C10_Thousandths(ne[k]), 1000>>,
                                RatMul(RatSub(One, ne[k].confidence), <<1, 10>>)))
                /\ RatGe(cg[k].severity, Zero)
                /\ RatLe(cg[k].severity, One)

C10_Witness ==
    /\ pc = "done"
    /\ \E k \in DOMAIN gaps :
          /\ gaps[k].clause_a.clause_type = "prohibition"
          /\ gaps[k].gap_type = "ambiguity"
          /\ gaps[k].severity = <<19, 20>>
    /\ \E k \in DOMAIN gaps :
          /\ gaps[k].clause_a.clause_type = "obligation"
          /\ gaps[k].gap_type = "coverage_gap"
          /\ gaps[k].severity = <<67, 100>>

(***************************************************************************)
(* Properties of generate_gap_matrix (checked under SpecMatrix)            *)
(***************************************************************************)
IndexPairs(n) == {p \in (1..n) \X (1..n) : p[1] < p[2]}

\* compare was invoked exactly once per pair (i, j) with i < j
ComparedOncePerPair ==
    /\ Range(compare_calls) = IndexPairs(Len(profiles))
    /\ Len(compare_calls) = Cardinality(IndexPairs(Len(profiles)))

NoSelfOrReversedKey ==
    \A key \in DOMAIN matrix : key[1] # key[2] /\ <<key[2], key[1]>> \notin DOMAIN matrix

\* C8 as stated: for every list of n profiles the matrix has n(n-1)/2 keys, none pairing a
\* profile with itself or reversing another, and compare runs once per pair i < j
C8_OneKeyPerPair ==
    pc = "done" =>
        /\ 2 * Cardinality(DOMAIN matrix) = Len(profiles) * (Len(profiles) - 1)
        /\ NoSelfOrReversedKey
        /\ ComparedOncePerPair

DistinctJurisdictions ==
    \A i, j \in DOMAIN profiles : i # j => profiles[i].jurisdiction # profiles[j].jurisdiction

\* C8 (amended): compare is invoked exactly once per pair (i, j) with i < j and the keys are
\* the name pairs (profiles[i].jurisdiction, profiles[j].jurisdiction) of those pairs; when
\* the jurisdiction names are pairwise distinct that is n(n-1)/2 keys, none pairing a
\* profile with itself and no two reversals of each other.
C8_OneKeyPerNamePair ==
    pc = "done" =>
        /\ ComparedOncePerPair
        /\ DOMAIN matrix = { <<profiles[p[1]].jurisdiction, profiles[p[2]].jurisdiction>> :
                                p \in IndexPairs(Len(profiles)) }
        /\ DistinctJurisdictions =>
              /\ 2 * Cardinality(DOMAIN matrix) = Len(profiles) * (Len(profiles) - 1)
              /\ NoSelfOrReversedKey

C8_Witness ==
    /\ pc = "done"
    /\ Len(profiles) = 3
    /\ DistinctJurisdictions
    /\ Cardinality(DOMAIN matrix) = 3
    /\ Len(compare_calls) = 3

(***************************************************************************)
(* Regulatory-burden and definitional-conflict gaps (checked under         *)
(* SpecCompare)                                                            *)
(***************************************************************************)
\* The gap built by _analyze_regulatory_burden is the only SCOPE_DIFFERENCE gap that
\* carries no clause
IsBurdenGap(gap) == gap.gap_type = "scope_difference" /\ gap.clause_a = NoClause

BurdenGapIndices == {k \in DOMAIN gaps : IsBurdenGap(gaps[k])}

\* a > 1.5 * b, in exact arithmetic
MoreThanOneAndAHalfTimes(a, b) == RatGt(<<a, 1>>, RatMul(<<3, 2>>, <<b, 1>>))

DefinedTexts(defs, term) ==
    {LowerText(defs[k].definition_text) : k \in {m \in DOMAIN defs : Lower(defs[m].term) = term}}

\* The DEFINITIONAL_CONFLICT gaps emitted for a term
TermGapIndices(term) ==
    {k \in DOMAIN gaps : gaps[k].gap_type = "definitional_conflict"
                            /\ gaps[k].description[2] = term}

\* The two profiles define the term with texts that differ case-insensitively
DefinedDifferently(term) ==
    \E x \in DefinedTexts(profile_a.definitions, term),
       y \in DefinedTexts(profile_b.definitions, term) : x # y

\* C12: for any lists of definitions given to the two profiles, compare emits a
\* DEFINITIONAL_CONFLICT gap (severity 0.7, confidence 0.8) for every lower-cased term
\* defined in both profiles with texts that differ case-insensitively, and none for a
\* term defined in one profile only or with the same text in both.
C12_ConflictForEveryDifferingTerm ==
    pc = "done" =>
        /\ \A term \in TermKeys(profile_a.definitions) \cup TermKeys(profile_b.definitions) :
              /\ DefinedDifferently(term) =>
                    \E k \in TermGapIndices(term) :
                        /\ RatEq(gaps[k].severity, <<7, 10>>)
                        /\ RatEq(gaps[k].confidence, <<4, 5>>)
              /\ ~DefinedDifferently(term) => TermGapIndices(term) = {}
        /\ \A k \in DOMAIN gaps :
              gaps[k].gap_type = "definitional_conflict" =>
                  gaps[k].description[2] \in TermKeys(profile_a.definitions)
                                                \cap TermKeys(profile_b.definitions)

(***************************************************************************)
(* Properties of JurisdictionProfile (checked under SpecProfile)           *)
(***************************************************************************)
\* Number of clauses of one type in a list
ClausesOfType(clauses, clause_type) ==
    Len(SelectSeq(clauses, LAMBDA c : c.clause_type = clause_type))

CountsMatchClauses(profile) ==
    /\ profile.obligation_count = ClausesOfType(profile.clauses, "obligation")
    /\ profile.prohibition_count = ClausesOfType(profile.clauses, "prohibition")
    /\ profile.permission_count = ClausesOfType(profile.clauses, "permission")

\* C13: at all times after construction, and whatever counts were passed to the
\* constructor, obligation_count, prohibition_count and permission_count of a profile
\* equal the number of clauses of type OBLIGATION, PROHIBITION and PERMISSION in its
\* clauses list.
C13_CountsMatchClauses ==
    pc \in {"compare", "done"} => CountsMatchClauses(profile_a) /\ CountsMatchClauses(profile_b)

C13_Witness ==
    /\ pc = "done"
    /\ passed_counts = <<0, 2, 1>>
    /\ profile_a.obligation_count = 1
    /\ profile_a.prohibition_count = 0
    /\ profile_a.permission_count = 1
    /\ Len(profile_a.clauses) = 2

(***************************************************************************)
(* Properties of EnforcementModel (checked under SpecEnforcement)          *)
(***************************************************************************)
\* The number a sequence of decimal digits denotes
RECURSIVE DecimalValue(_)
DecimalValue(digits) ==
    IF digits = <<>> THEN 0
    ELSE 10 * DecimalValue(SubSeq(digits, 1, Len(digits) - 1)) + digits[Len(digits)]

\* id is ENF-k with k zero-padded to 4 digits
IsScenarioIdOf(id, k) ==
    /\ id.prefix = "ENF"
    /\ Len(id.digits) = 4
    /\ \A d \in DOMAIN id.digits : id.digits[d] \in 0..9
    /\ DecimalValue(id.digits) = k

\* The counter of every instance is the number of calls made on it, the k-th call
\* returned ENF-k, and the IDs of one instance are unique and strictly increasing
C14_SequentialIds ==
    \A i \in ModelInstances :
        /\ enforcement_models[i]._scenario_counter = Len(scenario_ids[i])
        /\ \A k \in DOMAIN scenario_ids[i] : IsScenarioIdOf(scenario_ids[i][k], k)
        /\ \A k, m \in DOMAIN scenario_ids[i] :
              k < m => /\ scenario_ids[i][k] # scenario_ids[i][m]
                       /\ DecimalValue(scenario_ids[i][k].digits)
                              < DecimalValue(scenario_ids[i][m].digits)

\* The counter rises by exactly one in a call of model_clause_risk on its instance and
\* is changed by no other step
C14_CounterStep ==
    \A i \in ModelInstances :
        IF scenario_ids'[i] # scenario_ids[i]
        THEN /\ enforcement_models'[i]._scenario_counter
                    = enforcement_models[i]._scenario_counter + 1
             /\ last_call'.instance = i
             /\ scenario_ids'[i] = Append(scenario_ids[i], last_call'.scenario.scenario_id)
        ELSE enforcement_models'[i]._scenario_counter
                 = enforcement_models[i]._scenario_counter

\* This step calls an instance that is in the counter state the instance called last was
\* in, with the clause and ambiguities of that last call
SameCallOnOtherInstance ==
    /\ last_call # NoCall
    /\ scenario_ids' # scenario_ids
    /\ last_call'.instance # last_call.instance
    /\ enforcement_models'[last_call'.instance]._scenario_counter
           = enforcement_models[last_call.instance]._scenario_counter
    /\ last_call'.scenario.clause = last_call.scenario.clause
    /\ last_call'.scenario.ambiguities = last_call.scenario.ambiguities

SameConservativeFactor ==
    enforcement_models[last_call'.instance].conservative_factor
        = enforcement_models[last_call.instance].conservative_factor

\* C14: on one instance called sequentially the k-th call of model_clause_risk returns
\* ENF-k (k zero-padded to 4 digits), the counter starting at 0, rising by one per call
\* and changed by nothing else, so the IDs of an instance are unique and strictly
\* increasing; and two instances with the same counter state given the same clause and
\* ambiguities return identical scenarios.
C14_SequentialDeterministicIds ==
    /\ [](C14_SequentialIds)
    /\ [][C14_CounterStep /\ (SameCallOnOtherInstance =>
                                 last_call'.scenario = last_call.scenario)]_vars

\* C14 (amended): as C14, the two instances that return identical scenarios being
\* instances with the same counter state and the same conservative_factor.
C14_SequentialIdsSameFactor ==
    /\ [](C14_SequentialIds)
    /\ [][C14_CounterStep /\ (SameCallOnOtherInstance /\ SameConservativeFactor =>
                                 last_call'.scenario = last_call.scenario)]_vars

C14_Witness ==
    /\ \A i \in ModelInstances :
          /\ Len(scenario_ids[i]) = 2
          /\ scenario_ids[i][1].digits = <<0, 0, 0, 1>>
          /\ scenario_ids[i][2].digits = <<0, 0, 0, 2>>
    /\ enforcement_models[1].conservative_factor = enforcement_models[2].conservative_factor
    /\ last_call.instance = 2
    /\ last_call.scenario.scenario_id = scenario_ids[1][2]

\* The base value of a clause type
C16_BaseValue(clause_type) ==
    CASE clause_type = "prohibition"                 -> <<3, 4>>
      [] clause_type = "obligation"                  -> <<1, 2>>
      [] clause_type \in {"condition", "exception"}  -> <<1, 4>>
      [] clause_type \in {"permission", "definition"} -> <<1, 10>>

\* base + impact_weight(type) * severity for every ambiguity
C16_Sum(base, ambiguities) ==
    LET Partial[k \in 0..Len(ambiguities)] ==
            IF k = 0 THEN base
            ELSE RatAdd(Partial[k - 1], RatMul(AMBIGUITY_IMPACT(ambiguities[k].ambiguity_type),
                                               ambiguities[k].severity))
    IN  Partial[Len(ambiguities)]

C16_Level(score) ==
    CASE RatGe(score, <<4, 5>>)                              -> "VERY_HIGH"
      [] RatLt(score, <<4, 5>>) /\ RatGe(score, <<3, 5>>)    -> "HIGH"
      [] RatLt(score, <<3, 5>>) /\ RatGe(score, <<2, 5>>)    -> "MODERATE"
      [] RatLt(score, <<2, 5>>) /\ RatGe(score, <<1, 5>>)    -> "LOW"
      [] RatLt(score, <<1, 5>>)                              -> "VERY_LOW"

OutcomeSet(scenario) == {scenario.potential_outcomes[k] : k \in DOMAIN scenario.potential_outcomes}

\* C17: the potential_outcomes of the scenario of a PROHIBITION clause are
\* CEASE_AND_DESIST and FINE, with LICENSE_SUSPENSION exactly when the value of the
\* adjusted likelihood is >= 0.7, and nothing else.
C17_ProhibitionOutcomes ==
    (last_call # NoCall /\ last_call.scenario.clause.clause_type = "prohibition") =>
        LET scenario == last_call.scenario
        IN  /\ OutcomeSet(scenario) =
                   {"cease_and_desist", "fine"}
                       \cup (IF RatGe(EnforcementLikelihood[scenario.likelihood], <<7, 10>>)
                             THEN {"license_suspension"} ELSE {})
            /\ Len(scenario.potential_outcomes) = Cardinality(OutcomeSet(scenario))

C17_Witness ==
    /\ last_call # NoCall
    /\ last_call.scenario.clause.clause_type = "prohibition"
    /\ last_call.scenario.likelihood = "HIGH"
    /\ last_call.scenario.potential_outcomes = <<"cease_and_desist", "fine", "license_suspension">>

\* C18: every scenario returned by model_clause_risk has requires_legal_review = true,
\* for every clause type, list of ambiguities and conservative_factor.
C18_ScenarioRequiresReview ==
    last_call # NoCall => last_call.scenario.requires_legal_review = TRUE

C18_Witness ==
    /\ last_call # NoCall
    /\ last_call.scenario.clause.clause_type = "permission"
    /\ last_call.scenario.ambiguities = <<>>
    /\ last_call.scenario.likelihood = "VERY_LOW"
    /\ last_call.scenario.potential_outcomes = <<"warning">>
    /\ last_call.scenario.requires_legal_review = TRUE

(***************************************************************************)
(* Properties of the shared counters (checked under SpecRace)              *)
(***************************************************************************)
\* id is prefix-k with k zero-padded to width digits, 1 <= k <= number of threads
IsIdOfSomeCall(id, prefix, width) ==
    /\ id.prefix = prefix
    /\ Len(id.digits) = width
    /\ DecimalValue(id.digits) \in 1..MaxThreads

\* C15: model_clause_risk is not safe for concurrent callers sharing one instance: the
\* counter update (read, add one, write back, read again for the ID) is not atomic, so
\* interleaved calls can return the same scenario_id or skip a number, and likewise for
\* the report counter of generate_compliance_report.  All that holds of n unsynchronised
\* calls is that each counter ends between 1 and n and every ID carries a number
\* between 1 and n; the witness is a run whose two calls return the same ID, ENF-0002,
\* so that ENF-0001 is skipped, and the same report ID.
C15_UnsynchronisedCounters ==
    /\ _scenario_counter \in 0..MaxThreads
    /\ _report_counter \in 0..MaxThreads
    /\ \A t \in Threads :
          /\ Len(thread_ids[t]) >= 1 =>
                /\ IsIdOfSomeCall(thread_ids[t][1], "ENF", 4)
                /\ _scenario_counter >= 1
          /\ Len(thread_ids[t]) >= 2 =>
                /\ IsIdOfSomeCall(thread_ids[t][2], DefaultReportPrefix, 5)
                /\ _report_counter >= 1

C15_Witness ==
    /\ \A t \in Threads : Len(thread_ids[t]) = 2
    /\ thread_ids[1][1] = thread_ids[2][1]
    /\ thread_ids[1][1].digits = <<0, 0, 0, 2>>
    /\ thread_ids[1][2] = thread_ids[2][2]
    /\ thread_ids[1][2].digits = <<0, 0, 0, 0, 1>>
    /\ _report_counter = 1

\* The two conditions of a RiskInterval: bounds ordered within [0, 1] around the
\* point estimate, confidence level strictly between 0 and 1
WithinBounds(point_estimate, lower_bound, upper_bound) ==
    /\ lower_bound[1] * 1 >= 0 * lower_bound[2]
    /\ lower_bound[1] * point_estimate[2] <= point_estimate[1] * lower_bound[2]
    /\ point_estimate[1] * upper_bound[2] <= upper_bound[1] * point_estimate[2]
    /\ upper_bound[1] * 1 <= 1 * upper_bound[2]

StrictlyInsideUnit(confidence_level) ==
    /\ confidence_level[1] > 0
    /\ confidence_level[1] < confidence_level[2]

SatisfiesBoth(interval) ==
    /\ WithinBounds(interval.point_estimate, interval.lower_bound, interval.upper_bound)
    /\ StrictlyInsideUnit(interval.confidence_level)

ConstructorCalled == bounds_call.op = "RiskInterval"

ArgumentsSatisfyBoth ==
    /\ WithinBounds(bounds_call.args[1], bounds_call.args[2], bounds_call.args[3])
    /\ StrictlyInsideUnit(bounds_call.args[4])

\* C19: every RiskInterval that exists satisfies 0 <= lower_bound <= point_estimate
\* <= upper_bound <= 1 and 0 < confidence_level < 1; a construction whose arguments
\* break either condition raises and makes no object (nothing is clamped), and one
\* whose arguments satisfy both makes the object with exactly those arguments.
C19_IntervalInvariantEnforced ==
    /\ [](/\ \A k \in 1..Len(intervals) : SatisfiesBoth(intervals[k])
          /\ aggregated # NoInterval => SatisfiesBoth(aggregated)
          /\ (ConstructorCalled /\ ~ArgumentsSatisfyBoth) => raised = "AssertionError")
    /\ [][ConstructorCalled' =>
            IF ArgumentsSatisfyBoth'
            THEN /\ raised' = "None"
                 /\ intervals' = Append(intervals,
                        RiskIntervalFields(bounds_call'.args[1], bounds_call'.args[2],
                                           bounds_call'.args[3], bounds_call'.args[4]))
            ELSE intervals' = intervals]_vars

\* a construction with lower_bound > point_estimate has just failed, after one succeeded
C19_Witness ==
    /\ ConstructorCalled
    /\ bounds_call.args[2][1] * bounds_call.args[1][2] > bounds_call.args[1][1] * bounds_call.args[2][2]
    /\ raised = "AssertionError"
    /\ Len(intervals) = 1

\* C20: aggregate_intervals called with a method name other than "conservative",
\* "average" and "max" raises and returns no interval, whatever list is passed.
C20_UnknownMethodRaises ==
    (bounds_call.op = "aggregate_intervals"
        /\ bounds_call.method \notin {"conservative", "average", "max"})
    => (raised # "None" /\ aggregated = NoInterval)

CalculateBoundsReturned == bounds_call.op = "calculate_bounds" /\ raised = "None"

InUnitInterval(x) == x[1] >= 0 /\ x[1] <= x[2]

\* twice the point estimate against the sum of the bounds: upper - point >= point - lower
\* exactly when lower + upper >= 2 * point
SkewedUpward(interval, slack) ==
    LET sum == RatAdd(RatAdd(interval.lower_bound, interval.upper_bound), slack)
        twice == RatAdd(interval.point_estimate, interval.point_estimate)
    IN  sum[1] * twice[2] >= twice[1] * sum[2]

\* C21 as stated: every interval returned by calculate_bounds for a point estimate in
\* [0, 1] and a conservative_bias in [0, 1] has upper_bound - point_estimate >=
\* point_estimate - lower_bound.
C21_SkewedTowardWorseCase ==
    (/\ CalculateBoundsReturned
     /\ InUnitInterval(bounds_call.args[1])
     /\ InUnitInterval(confidence_bounds.conservative_bias))
    => SkewedUpward(calculated, Zero)

\* C21, amended: an interval returned by calculate_bounds for a point estimate in [0, 1]
\* and a conservative_bias in [0, 1] whose upper_bound is below 1 (not cut off at 1) has
\* upper_bound - point_estimate >= point_estimate - lower_bound - 0.0002, the allowance
\* being the rounding of the three values to four decimals.
C21_SkewedUnlessCutOff ==
    (/\ CalculateBoundsReturned
     /\ InUnitInterval(bounds_call.args[1])
     /\ InUnitInterval(confidence_bounds.conservative_bias)
     /\ calculated.upper_bound[1] < calculated.upper_bound[2])
    => SkewedUpward(calculated, <<2, 10000>>)

\* calculate_bounds has returned an interval below 1 that reaches further up than down
C21_Witness ==
    /\ CalculateBoundsReturned
    /\ InUnitInterval(bounds_call.args[1])
    /\ InUnitInterval(confidence_bounds.conservative_bias)
    /\ confidence_bounds.conservative_bias[1] > 0
    /\ calculated.upper_bound[1] < calculated.upper_bound[2]
    /\ calculated.lower_bound[1] > 0
    /\ RatLt(RatAdd(calculated.point_estimate, calculated.point_estimate),
             RatAdd(calculated.lower_bound, calculated.upper_bound))

ValidInstance ==
    /\ InUnitInterval(confidence_bounds.conservative_bias)
    /\ StrictlyInsideUnit(confidence_bounds.confidence_level)

ValidCalculateArguments ==
    /\ InUnitInterval(bounds_call.args[1])
    /\ InUnitInterval(bounds_call.args[3])
    /\ bounds_call.args[4] >= 1

\* C28: with point_estimate and sample_confidence in [0, 1], n_observations >= 1,
\* conservative_bias in [0, 1] and 0 < confidence_level < 1, calculate_bounds returns
\* (no exception) an interval with 0 <= lower <= point <= upper <= 1; so does
\* aggregate_intervals for a supported method and a non-empty list of valid intervals.
C28_BoundsAlwaysConstructible ==
    /\ (bounds_call.op = "calculate_bounds" /\ ValidInstance /\ ValidCalculateArguments)
        => (raised = "None" /\ calculated # NoInterval /\ SatisfiesBoth(calculated))
    /\ (/\ bounds_call.op = "aggregate_intervals"
        /\ bounds_call.method \in {"conservative", "average", "max"}
        /\ intervals # <<>>
        /\ ValidInstance)
        => (raised = "None" /\ aggregated # NoInterval /\ SatisfiesBoth(aggregated))

\* calculate_bounds has returned an interval whose upper bound was cut off at 1 above a
\* point estimate below 1
C28_Witness ==
    /\ bounds_call.op = "calculate_bounds"
    /\ ValidInstance
    /\ ValidCalculateArguments
    /\ raised = "None"
    /\ calculated.upper_bound = One
    /\ RatLt(calculated.point_estimate, One)
    /\ RatLt(Zero, calculated.lower_bound)

DetectReturned == ambiguity_report.called /\ ambiguity_report.raised = "None"

\* min(1.0, instance_count / (word_count / 100)) as a fraction of integers
DensityPerHundredWords(instance_count, word_count) ==
    IF 100 * instance_count >= word_count
    THEN <<1, 1>>
    ELSE Rat(100 * instance_count, word_count)

\* C22: detect never fails with a division by zero; the score it returns is 0.0 when no
\* instance remains (empty text included) and min(1.0, instance_count / (word_count / 100))
\* otherwise, and lies in [0, 1].
C22_AmbiguityScore ==
    ambiguity_report.called =>
        /\ ambiguity_report.raised = "None"
        /\ InUnitInterval(ambiguity_report.ambiguity_score)
        /\ ambiguity_report.total_instances = 0 => ambiguity_report.ambiguity_score = <<0, 1>>
        /\ ambiguity_report.total_instances > 0 =>
              /\ WordCount(document_text) > 0
              /\ ambiguity_report.ambiguity_score =
                    DensityPerHundredWords(ambiguity_report.total_instances, WordCount(document_text))

\* detect has returned a score strictly between 0 and 1
C22_Witness ==
    /\ DetectReturned
    /\ ambiguity_report.ambiguity_score[1] > 0
    /\ ambiguity_report.ambiguity_score[1] < ambiguity_report.ambiguity_score[2]

\* the guidance entries that follow the first entry, from the counts of the report
GuidanceFor(report) ==
    (IF CountIn(report.instances_by_type, "VAGUE_STANDARD") > 3
     THEN <<"Multiple vague standards detected.">> ELSE <<>>)
    \o (IF CountIn(report.instances_by_type, "TIMING_UNCLEAR") > 2
        THEN <<"Timing requirements are ambiguous.">> ELSE <<>>)
    \o (IF CountIn(report.instances_by_type, "THRESHOLD_UNCLEAR") > 2
        THEN <<"Materiality/threshold definitions are unclear.">> ELSE <<>>)
    \o (IF report.high_severity_count > 5
        THEN <<"HIGH PRIORITY: high-severity ambiguities detected.">> ELSE <<>>)

\* C23: for every call of detect the first recommendation is the legal-review disclaimer,
\* followed by each of the four guidance entries exactly when its own condition holds.
C23_DisclaimerFirst ==
    DetectReturned =>
        /\ ambiguity_report.recommendations # <<>>
        /\ Head(ambiguity_report.recommendations) = LegalReviewDisclaimer
        /\ Tail(ambiguity_report.recommendations) = GuidanceFor(ambiguity_report)

Occurrences(list, x) == Cardinality({k \in 1..Len(list) : list[k] = x})

SameInstances(a, b) ==
    \A x \in {a[k] : k \in 1..Len(a)} \cup {b[k] : k \in 1..Len(b)} :
        Occurrences(a, x) = Occurrences(b, x)

KeptBySeverity(found) ==
    SelectSeq(found, LAMBDA i : i.severity[1] * detector.severity_threshold[2]
                                    >= detector.severity_threshold[1] * i.severity[2])

\* C26: the instances of the report are exactly the instances found by the five passes
\* with severity >= severity_threshold, in non-decreasing position, and total_instances,
\* instances_by_type and high_severity_count (severity >= 0.7) count that list.
C26_FilteredSortedCounted ==
    DetectReturned =>
        LET kept == ambiguity_report.instances
        IN  /\ SameInstances(kept, KeptBySeverity(DetectedInstances(detector, document_text)))
            /\ \A k \in 1..(Len(kept) - 1) : kept[k].position <= kept[k + 1].position
            /\ ambiguity_report.total_instances = Len(kept)
            /\ DOMAIN ambiguity_report.instances_by_type = {kept[k].ambiguity_type : k \in 1..Len(kept)}
            /\ \A t \in DOMAIN ambiguity_report.instances_by_type :
                  ambiguity_report.instances_by_type[t] =
                      Cardinality({k \in 1..Len(kept) : kept[k].ambiguity_type = t})
            /\ ambiguity_report.high_severity_count =
                  Cardinality({k \in 1..Len(kept) : 10 * kept[k].severity[1] >= 7 * kept[k].severity[2]})

\* detect has returned a list from which the threshold removed an instance and whose
\* order differs from the order in which the passes found the instances
C26_Witness ==
    /\ DetectReturned
    /\ detector.severity_threshold[1] > 0
    /\ Len(ambiguity_report.instances) >= 2
    /\ Len(ambiguity_report.instances) < Len(DetectedInstances(detector, document_text))
    /\ ambiguity_report.instances # KeptBySeverity(DetectedInstances(detector, document_text))

(***************************************************************************)
(* Properties of ClauseExtractor.extract (checked under SpecExtraction)    *)
(***************************************************************************)
FamilyOrder == <<"prohibition", "obligation", "permission", "exception", "condition", "definition">>

MatchesFamily(family, sentence) ==
    IF family = "definition" THEN _is_definition(sentence)
    ELSE FamilyFound(PatternsOfType(family), sentence)

MatchingFamilies(sentence) == {f \in DOMAIN FamilyOrder : MatchesFamily(FamilyOrder[f], sentence)}

FirstMatchingFamily(sentence) ==
    IF MatchingFamilies(sentence) = {} THEN "unknown"
    ELSE FamilyOrder[CHOOSE f \in MatchingFamilies(sentence) : \A g \in MatchingFamilies(sentence) : f <= g]

ClausesAtPosition(position) == {k \in DOMAIN extracted.clauses : extracted.clauses[k].position = position}

\* C24: every sentence of the text that is long enough is classified by the first
\* pattern family that matches it, in the order PROHIBITION, OBLIGATION, PERMISSION,
\* EXCEPTION, CONDITION, DEFINITION: it is returned as one clause of that type (so a
\* sentence matching a prohibition pattern is returned as PROHIBITION), a sentence that
\* no family matches is not returned, and no returned clause has the type UNKNOWN.
C24_FirstMatchingFamily ==
    extracted.called =>
        LET sentences == _split_sentences(regulatory_text)
        IN  /\ \A k \in DOMAIN extracted.clauses : extracted.clauses[k].clause_type # "unknown"
            /\ \A i \in DOMAIN sentences :
                  IF SentenceLength(sentences[i]) >= extractor.min_clause_length
                     /\ FirstMatchingFamily(sentences[i]) # "unknown"
                  THEN /\ Cardinality(ClausesAtPosition(i - 1)) = 1
                       /\ \A k \in ClausesAtPosition(i - 1) :
                             extracted.clauses[k].clause_type = FirstMatchingFamily(sentences[i])
                  ELSE ClausesAtPosition(i - 1) = {}

(***************************************************************************)
(* Properties of DefinitionExtractor.extract (under SpecDefinitions)       *)
(***************************************************************************)
\* every valid match of any pattern in the text
ValidMatches ==
    { DefinitionMatch(glossary_text, k, p) : <<k, p>> \in
        { kp \in (DOMAIN glossary_text) \X (DOMAIN DEFINITION_PATTERNS) :
            /\ PatternMatchesStatement(DEFINITION_PATTERNS[kp[2]], glossary_text[kp[1]])
            /\ _is_valid_definition(definition_extractor, glossary_text[kp[1]].term,
                                    glossary_text[kp[1]].body) } }

\* C25: extract returns at most one Definition per lower-cased term, and the one it
\* keeps is the term's first occurrence: no valid match for that term, by any pattern,
\* starts at an earlier position in the text than the kept one.
C25_FirstOccurrenceKept ==
    extracted_definitions.called =>
        LET kept == extracted_definitions.definitions
        IN  /\ \A i, j \in DOMAIN kept : Lower(kept[i].term) = Lower(kept[j].term) => i = j
            /\ \A i \in DOMAIN kept : \A m \in ValidMatches :
                  Lower(m.term) = Lower(kept[i].term) => kept[i].position <= m.position

(***************************************************************************)
(* Properties of _deduplicate_sections (checked under SpecSections)        *)
(***************************************************************************)
SectionsReturned == section_pc = "done"

SortedAndDisjoint(list) ==
    \A i \in 1..(Len(list) - 1) :
        /\ list[i].start <= list[i + 1].start
        /\ list[i + 1].start >= list[i].end

\* what the iteration on `section` must leave in the list of kept sections
KeptAfter(kept, section) ==
    LET last == kept[Len(kept)]
        overlaps == section.start < last.end
    IN  IF ~overlaps THEN Append(kept, section)
        ELSE IF Len(section.id) > Len(last.id)
             THEN SubSeq(kept, 1, Len(kept) - 1) \o <<section>>
             ELSE kept

\* C27: the list _deduplicate_sections returns for the sections of the five header
\* patterns is sorted by start and each section starts at or after the end of the one
\* before it; in every iteration a section that overlaps the last kept one replaces it
\* only if its identifier is strictly longer and is dropped otherwise, and a section
\* that does not overlap it is added.
C27_SortedDisjointLongerIdWins ==
    /\ [](SectionsReturned => SortedAndDisjoint(deduplicated))
    /\ [][ (section_pc = "deduplicate" /\ section_pos <= Len(sections))
              => deduplicated' = KeptAfter(deduplicated, sections[section_pos]) ]_vars

\* a returned list of two or more sections from which one section was dropped for
\* its overlap and in which another stands in place of an overlapping one with a
\* shorter identifier
C27_Witness ==
    /\ SectionsReturned
    /\ Len(deduplicated) >= 2
    /\ \E d \in Range(sections), k \in Range(deduplicated) :
          /\ d \notin Range(deduplicated)
          /\ d.start < k.start
          /\ k.start < d.end
          /\ Len(k.id) > Len(d.id)
    /\ \E d \in Range(sections), k \in Range(deduplicated) :
          /\ d \notin Range(deduplicated)
          /\ k.start < d.start
          /\ d.start < k.end
          /\ Len(d.id) <= Len(k.id)

(***************************************************************************)
(* The likelihood level against the base level (under SpecEnforcement)     *)
(***************************************************************************)
\* the levels of EnforcementLikelihood from the lowest to the highest
LikelihoodRank(level) ==
    CASE level = "VERY_LOW"  -> 1
      [] level = "LOW"       -> 2
      [] level = "MODERATE"  -> 3
      [] level = "HIGH"      -> 4
      [] level = "VERY_HIGH" -> 5

NonNegativeSeverities(ambiguities) == \A k \in DOMAIN ambiguities : RatGe(ambiguities[k].severity, Zero)

\* C29: for every clause and every list of ambiguities whose severities are not
\* negative, the likelihood level of the scenario model_clause_risk returns is at
\* least the base level of the clause's type.
C29_NeverBelowBase ==
    (last_call # NoCall /\ NonNegativeSeverities(last_call.scenario.ambiguities)) =>
        LikelihoodRank(last_call.scenario.likelihood)
            >= LikelihoodRank(CLAUSE_TYPE_LIKELIHOOD(last_call.scenario.clause.clause_type))

\* a prohibition whose ambiguities bring the score to the upper clamp: VERY_HIGH
\* from the base HIGH
C29_Witness ==
    /\ last_call # NoCall
    /\ last_call.scenario.clause.clause_type = "prohibition"
    /\ Len(last_call.scenario.ambiguities) = 4
    /\ NonNegativeSeverities(last_call.scenario.ambiguities)
    /\ last_call.scenario.likelihood = "VERY_HIGH"

(***************************************************************************)
(* Properties of the embedding cache (checked under SpecCache)             *)
(***************************************************************************)
EncodedOncePerText == \A i, j \in DOMAIN encode_calls : encode_calls[i] = encode_calls[j] => i = j

CacheOnlyGrows ==
    \A text \in DOMAIN _embeddings_cache :
        /\ text \in DOMAIN _embeddings_cache'
        /\ _embeddings_cache'[text] = _embeddings_cache[text]

SameAsWithoutCache ==
    /\ cache_call.differences = compare_clauses(cache_call.clauses_a, cache_call.clauses_b,
                                                DefaultJurisdictionA, DefaultJurisdictionB)
    /\ \A k \in DOMAIN cache_call.similarities :
          cache_call.similarities[k][3] =
              _embedding_similarity(embedding_model, cache_call.similarities[k][1],
                                    cache_call.similarities[k][2])

\* C30: over any sequence of compare_clauses calls on one SemanticDiff with a
\* deterministic embedding model, the model is invoked at most once per distinct clause
\* text, an embedding in the cache is never replaced or removed, and the similarities
\* and the differences of every call are those the call gives without the cache.
C30_CacheTransparent ==
    /\ [](EncodedOncePerText /\ SameAsWithoutCache)
    /\ [][CacheOnlyGrows]_vars

\* a second call whose similarities needed more embeddings than the model was ever
\* asked for, so that some came from the cache, and that returned a matched difference
C30_Witness ==
    /\ cache_call.count = 2
    /\ Len(cache_call.similarities) >= 1
    /\ 2 * Len(cache_call.similarities) > Len(encode_calls)
    /\ \E k \in DOMAIN cache_call.differences : cache_call.differences[k].difference_type # "novel"

====
